---- MODULE Spec2Model ----
(***************************************************************************)
(* Model of the service-mesh aggregator: the Uptime Kuma statistics        *)
(* transformers (app/resources/uptime_kuma.py) as pure operators applied   *)
(* by transform actions, and the HTTP routing / credentials layer          *)
(* (app/api/router.py, app/services/credentials_service.py) as a state     *)
(* machine over stored users, service credentials and a clock.             *)
(***************************************************************************)
EXTENDS Integers, Sequences, FiniteSets, TLC

VARIABLES
    pc,          \* position of the handler under study
    bundle,      \* argument of MonitorStatisticsResource.transform
    result,      \* its return value (or the exception that escaped)
    fleet,       \* argument of AllMonitorsStatisticsResource.transform
    fleetResult, \* its return value (or the exception that escaped)
    users,       \* rows of table users
    creds,       \* rows of table service_credentials
    now,         \* datetime.utcnow(), in minutes
    issued,      \* every token jwt.encode ever returned
    requests,    \* log of handled HTTP requests
    raw_monitor, \* argument of MonitorResource.transform
    normalized,  \* its return value
    current_time, \* time.time(), in seconds
    instances,   \* the service objects Depends() has built, one per request
    tasks,       \* the HTTP requests in flight and where each one stands
    loop_holder, \* the request whose coroutine occupies the event loop, 0 if none
    calls,       \* the frames of concurrent transform calls
    health,      \* the health check in progress: its settings, upstreams and locals
    operations,  \* the mutating operations handled: their vendor calls and return values
    sessions,    \* the requests the worker threads are serving on the credentials tables
    kuma_service \* an UptimeKumaService object: its client handle and the connections it made

vars == <<pc, bundle, result, fleet, fleetResult, users, creds, now, issued, requests,
          raw_monitor, normalized, current_time, instances, tasks, loop_holder, calls,
          health, operations, sessions, kuma_service>>

-----------------------------------------------------------------------------
(* Python values.  Every scalar is a record of one shape so that any two   *)
(* scalars can be compared: t is the Python type, n/d a rational number    *)
(* in lowest terms (d > 0), s the text of a str.                           *)

None == [t |-> "none", n |-> 0, d |-> 1, s |-> ""]
Absent == [t |-> "absent", n |-> 0, d |-> 1, s |-> ""]
Str(x) == [t |-> "str", n |-> 0, d |-> 1, s |-> x]
Bool(b) == [t |-> "bool", n |-> (IF b THEN 1 ELSE 0), d |-> 1, s |-> ""]
True == Bool(TRUE)
False == Bool(FALSE)
Dash == Str("-")


RECURSIVE GCD(_, _)
GCD(a, b) == IF b = 0 THEN a ELSE GCD(b, a % b)

\* the number a/b (b > 0) in lowest terms
Num(a, b) ==
    LET g == GCD(IF a < 0 THEN -a ELSE a, b)
    IN  [t |-> "num", n |-> a \div g, d |-> b \div g, s |-> ""]
Int_(i) == Num(i, 1)

\* isinstance(v, (int, float)); bool is a subclass of int
IsNumber(v) == v.t \in {"num", "bool"}

\* bool(v)
Truthy(v) ==
    CASE v.t = "none" -> FALSE
      [] v.t = "absent" -> FALSE
      [] v.t = "str" -> v.s # ""
      [] OTHER -> v.n # 0

\* v == w of Python: numbers by value (True == 1), strings by text
PyEq(v, w) ==
    IF IsNumber(v) /\ IsNumber(w) THEN v.n = w.n /\ v.d = w.d
    ELSE v = w

Add(x, y) == Num(x.n * y.d + y.n * x.d, x.d * y.d)
Sub(x, y) == Num(x.n * y.d - y.n * x.d, x.d * y.d)
Mul(x, y) == Num(x.n * y.n, x.d * y.d)
DivInt(x, k) == Num(x.n, x.d * k)
Less(x, y) == x.n * y.d < y.n * x.d
Leq(x, y) == x.n * y.d <= y.n * x.d

\* round(x, k): nearest multiple of 10^-k, ties to the even one.  The value
\* is the exact rational; the program rounds the binary float next to it,
\* which differs only where the exact value is a decimal tie that is not a
\* binary fraction (x.x5): the inputs below give no such tie.
Round(x, k) ==
    LET scale == 10 ^ k
        num == x.n * scale
        q == num \div x.d
        r == num % x.d
        up == \/ 2 * r > x.d
              \/ 2 * r = x.d /\ q % 2 = 1
    IN  Num(IF up THEN q + 1 ELSE q, scale)

-----------------------------------------------------------------------------
(* Python dicts are functions from a finite set of keys.                   *)

EmptyDict == [k \in {} |-> None]

\* the dict of the keys of rec that are present
Dict(rec) == [k \in {j \in DOMAIN rec : rec[j] # Absent} |-> rec[k]]

\* d.get(k)           -> Get(d, k, None)
\* d.get(k, default)  -> Get(d, k, default)
Get(dict, k, default) == IF k \in DOMAIN dict THEN dict[k] ELSE default

\* UptimeKumaResource.clean_value on a scalar
clean_value(value) ==
    IF value = None \/ value = Str("") THEN Dash ELSE value

\* clean_value on a list of scalars
clean_list(items) == [i \in DOMAIN items |-> clean_value(items[i])]

\* A dict entry whose value is itself a dict or a list: absent, None or a value.
\* d.get(key, {}) / d.get(key, []) replaces only an absent key by its default,
\* a stored None comes back as None (p = "none").
Missing(empty) == [p |-> "absent", v |-> empty]
Null(empty) == [p |-> "none", v |-> empty]
Present(value) == [p |-> "val", v |-> value]

\* what a transform call produced: a return value or an escaped exception
Return(value) == [exc |-> "", out |-> value]
Raise(name) == [exc |-> name, out |-> EmptyDict]
NotRun == [exc |-> "not run", out |-> EmptyDict]
Returned(r) == r.exc = ""
Raised(r) == r.exc \notin {"", "not run"}

-----------------------------------------------------------------------------
(* Time strings.  datetime.fromisoformat and the str ordering are tables   *)
(* over the finite universe of time texts the inputs are drawn from.       *)

T_Jan1_10 == "2024-01-01T10:00:00"
T_Jan1_12 == "2024-01-01 12:00:00"
T_Jan2_08 == "2024-01-02T08:00:00"
T_Bad == "yesterday"

fromisoformat(s) ==
    CASE s = T_Jan1_10 -> 600
      [] s = T_Jan1_12 -> 720
      [] s = T_Jan2_08 -> 1920
      [] OTHER -> -1

\* position of s in the lexicographic (code point) order of str:
\* "" < "-" < "2024-01-01 12..." < "2024-01-01T10..." < "2024-01-02T08..." < "yesterday"
LexRank(s) ==
    CASE s = "" -> 0
      [] s = "-" -> 1
      [] s = T_Jan1_12 -> 2
      [] s = T_Jan1_10 -> 3
      [] s = T_Jan2_08 -> 4
      [] OTHER -> 5

\* list.sort(key=...) on a list of [k |-> key, v |-> item]: ascending and
\* stable, so items of equal key keep their input order.  reverse=True keeps
\* that order of equal keys too: it is the ascending sort on the negated key.
RECURSIVE InsertAsc(_, _)
InsertAsc(sorted, e) ==
    IF sorted = <<>> THEN <<e>>
    ELSE IF Head(sorted).k <= e.k
         THEN <<Head(sorted)>> \o InsertAsc(Tail(sorted), e)
         ELSE <<e>> \o sorted

RECURSIVE SortAsc(_)
SortAsc(keyed) ==
    IF keyed = <<>> THEN <<>>
    ELSE InsertAsc(SortAsc(SubSeq(keyed, 1, Len(keyed) - 1)), keyed[Len(keyed)])

-----------------------------------------------------------------------------
(* HeartbeatResource.transform                                             *)

\* the tier of a ping value: <100 excellent, <300 good, <600 fair, else poor
PingQuality(ping) ==
    IF ~PyEq(ping, Dash) /\ IsNumber(ping)
    THEN IF Less(ping, Int_(100)) THEN Str("excellent")
         ELSE IF Less(ping, Int_(300)) THEN Str("good")
         ELSE IF Less(ping, Int_(600)) THEN Str("fair")
         ELSE Str("poor")
    ELSE Dash

HeartbeatResource_transform(heartbeat) ==
    IF DOMAIN heartbeat = {} THEN EmptyDict
    ELSE LET monitor_id == Get(heartbeat, "monitor_id", Get(heartbeat, "monitorID", None))
             ping == clean_value(Get(heartbeat, "ping", None))
         IN  [id |-> clean_value(Get(heartbeat, "id", None)),
              monitor_id |-> clean_value(monitor_id),
              status |-> clean_value(Get(heartbeat, "status", None)),
              time |-> clean_value(Get(heartbeat, "time", None)),
              msg |-> clean_value(Get(heartbeat, "msg", None)),
              ping |-> ping,
              duration |-> clean_value(Get(heartbeat, "duration", None)),
              important |-> Bool(Truthy(Get(heartbeat, "important", False))),
              down_count |-> clean_value(Get(heartbeat, "down_count", Int_(0))),
              ping_quality |-> PingQuality(ping)]

-----------------------------------------------------------------------------
(* UptimeResource.transform                                                *)

Periods == {"24", "720"}

\* UptimeQuality whose tiers start above their thresholds
UptimeQuality_strict(percent) ==
    IF ~PyEq(percent, Dash)
    THEN IF Less(Num(999, 10), percent) THEN Str("excellent")
         ELSE IF Less(Int_(99), percent) THEN Str("good")
         ELSE IF Less(Int_(95), percent) THEN Str("fair")
         ELSE Str("poor")
    ELSE Dash

\* the tier of a percentage: >=99.9 excellent, >=99.0 good, >=95.0 fair, else poor
UptimeQuality(percent) ==
    IF ~PyEq(percent, Dash)
    THEN IF Leq(Num(999, 10), percent) THEN Str("excellent")
         ELSE IF Leq(Int_(99), percent) THEN Str("good")
         ELSE IF Leq(Int_(95), percent) THEN Str("fair")
         ELSE Str("poor")
    ELSE Dash

\* round(value * 100, 2) raises TypeError for a str
UptimeRaises(uptime) ==
    /\ uptime.p = "val"
    /\ \E period \in DOMAIN uptime.v :
          /\ ~PyEq(clean_value(uptime.v[period]), Dash)
          /\ ~IsNumber(uptime.v[period])

UptimeResource_transform(uptime) ==
    LET UptimePercent(value) ==
            IF ~PyEq(clean_value(value), Dash)
            THEN Round(Mul(value, Int_(100)), 2)
            ELSE Dash
    IN
    LET \* f"{period}h", f"{period}h_percent" and f"{period}h_quality"
        PeriodKey(period, kind) ==
            CASE kind = "" -> (IF period = "24" THEN "24h" ELSE "720h")
              [] kind = "percent" -> (IF period = "24" THEN "24h_percent" ELSE "720h_percent")
              [] OTHER -> (IF period = "24" THEN "24h_quality" ELSE "720h_quality")
    IN
    IF uptime.p # "val" \/ DOMAIN uptime.v = {} THEN EmptyDict
    ELSE LET periods == DOMAIN uptime.v
             kinds == {"", "percent", "quality"}
             keys == {PeriodKey(p, kind) : p \in periods, kind \in kinds}
             period(k) == CHOOSE p \in periods : \E kind \in kinds : k = PeriodKey(p, kind)
         IN  [k \in keys |->
                 LET p == period(k)
                 IN  IF k = PeriodKey(p, "") THEN clean_value(uptime.v[p])
                     ELSE IF k = PeriodKey(p, "percent") THEN UptimePercent(uptime.v[p])
                     ELSE UptimeQuality(UptimePercent(uptime.v[p]))]

-----------------------------------------------------------------------------
(* CertificateInfoResource.transform.  A certificate payload is            *)
(* [top: dict, certInfo: entry of [f: dict, subject: entry, issuer: entry]]*)

NoDetails == [f |-> EmptyDict, subject |-> Missing(EmptyDict), issuer |-> Missing(EmptyDict)]

CertIsEmpty(cert_info) ==
    \/ cert_info.p # "val"
    \/ DOMAIN cert_info.v.top = {} /\ cert_info.v.certInfo.p = "absent"

\* None.get(...) raises AttributeError: certInfo, subject or issuer stored as None
CertRaises(cert_info) ==
    /\ ~CertIsEmpty(cert_info)
    /\ \/ cert_info.v.certInfo.p = "none"
       \/ /\ cert_info.v.certInfo.p = "val"
          /\ \/ cert_info.v.certInfo.v.subject.p = "none"
             \/ cert_info.v.certInfo.v.issuer.p = "none"

CertificateInfoResource_transform(cert_info) ==
    LET ExpiryStatus(days_remaining) ==
            IF ~PyEq(days_remaining, Dash) /\ IsNumber(days_remaining)
            THEN IF Leq(days_remaining, Int_(0)) THEN Str("expired")
                 ELSE IF Leq(days_remaining, Int_(7)) THEN Str("critical")
                 ELSE IF Leq(days_remaining, Int_(30)) THEN Str("warning")
                 ELSE Str("ok")
            ELSE Dash
    IN
    IF CertIsEmpty(cert_info) THEN EmptyDict
    ELSE LET top == cert_info.v.top
             cert_details == IF cert_info.v.certInfo.p = "val"
                             THEN cert_info.v.certInfo.v ELSE NoDetails
             subject == cert_details.subject.v
             issuer == cert_details.issuer.v
             days_remaining == clean_value(Get(top, "days_remaining", None))
         IN  [valid |-> clean_value(Get(top, "valid", None)),
              subject_cn |-> clean_value(Get(subject, "CN", None)),
              subject_c |-> clean_value(Get(subject, "C", None)),
              subject_st |-> clean_value(Get(subject, "ST", None)),
              subject_l |-> clean_value(Get(subject, "L", None)),
              subject_o |-> clean_value(Get(subject, "O", None)),
              issuer_cn |-> clean_value(Get(issuer, "CN", None)),
              issuer_c |-> clean_value(Get(issuer, "C", None)),
              issuer_o |-> clean_value(Get(issuer, "O", None)),
              subject_alt_name |-> clean_value(Get(cert_details.f, "subjectaltname", None)),
              info_access |-> clean_value(Get(cert_details.f, "infoAccess", None)),
              valid_from |-> clean_value(Get(top, "valid_from", None)),
              valid_to |-> clean_value(Get(top, "valid_to", None)),
              days_remaining |-> days_remaining,
              fingerprint |-> clean_value(Get(cert_details.f, "fingerprint", None)),
              serial_number |-> clean_value(Get(cert_details.f, "serialNumber", None)),
              signature_algorithm |-> clean_value(Get(cert_details.f, "signatureAlgorithm", None)),
              expiry_status |-> ExpiryStatus(days_remaining)]

-----------------------------------------------------------------------------
(* MonitorStatisticsResource.transform                                     *)

\* the program's caps on the two heartbeat previews
ImportantCap == 25
\* RecentCap as large as the cap of the important heartbeats
RecentCap_important == ImportantCap
RecentCap == 10

RECURSIVE SelectPings(_)
\* [hb.get("ping") for hb in all_heartbeats if hb.get("ping") is not None]
SelectPings(hbs) ==
    IF hbs = <<>> THEN <<>>
    ELSE LET ping == Get(Head(hbs), "ping", None)
         IN  (IF ping # None THEN <<ping>> ELSE <<>>) \o SelectPings(Tail(hbs))

RECURSIVE Sum(_)
Sum(nums) == IF nums = <<>> THEN Int_(0) ELSE Add(Head(nums), Sum(Tail(nums)))

RECURSIVE SumSq(_)
SumSq(nums) ==
    IF nums = <<>> THEN Int_(0) ELSE Add(Mul(Head(nums), Head(nums)), SumSq(Tail(nums)))

RECURSIVE Isqrt(_)
\* floor of the square root of a natural number
Isqrt(x) ==
    IF x < 2 THEN x
    ELSE LET s == 2 * Isqrt(x \div 4)
         IN  IF (s + 1) * (s + 1) <= x THEN s + 1 ELSE s

\* round(statistics.stdev(valid_pings), 2): the sample standard deviation
stdev(valid_pings) ==
    LET \* round(sqrt(v), 2) for a rational v >= 0: whole part i, hundredths j, then
        \* the half-way test, all on the remainder v - i*i so no product exceeds 2^31
        RoundedSqrt(v) ==
            LET i == Isqrt(v.n \div v.d)
                rem == v.n - i * i * v.d
                j == CHOOSE h \in 0..99 :
                        /\ (200 * i * h + h * h) * v.d <= 10000 * rem
                        /\ h < 99 => (200 * i * (h + 1) + (h + 1) * (h + 1)) * v.d > 10000 * rem
                up == (400 * i * (2 * j + 1) + (2 * j + 1) * (2 * j + 1)) * v.d <= 40000 * rem
            IN  Num(100 * i + j + (IF up THEN 1 ELSE 0), 100)
    IN
    LET n == Len(valid_pings)
        total == Sum(valid_pings)
        variance == DivInt(Sub(Mul(Int_(n), SumSq(valid_pings)), Mul(total, total)),
                           n * (n - 1))
    IN  RoundedSqrt(variance)

\* CountChanges over the first ten heartbeats only
CountChanges_capped(hbs) ==
    Cardinality({i \in 2..(IF RecentCap <= Len(hbs) THEN RecentCap ELSE Len(hbs)) :
                    ~PyEq(Get(hbs[i], "status", None), Get(hbs[i - 1], "status", None))})

RECURSIVE CountChanges(_)
\* number of i >= 1 with heartbeats[i].status != heartbeats[i-1].status
CountChanges(hbs) ==
    IF Len(hbs) <= 1 THEN 0
    ELSE (IF ~PyEq(Get(hbs[2], "status", None), Get(hbs[1], "status", None)) THEN 1 ELSE 0)
         + CountChanges(Tail(hbs))

RECURSIVE FirstImportantTime(_)
\* time of the first heartbeat whose important flag is truthy, else None
FirstImportantTime(hbs) ==
    IF hbs = <<>> THEN None
    ELSE IF Truthy(Get(Head(hbs), "important", False))
         THEN Get(Head(hbs), "time", None)
         ELSE FirstImportantTime(Tail(hbs))

\* the key of the first sort: the parsed time, datetime.min for a falsy or "-" time
HasTime(hb) == Truthy(Get(hb, "time", None)) /\ ~PyEq(Get(hb, "time", None), Dash)
ParsedKey(hb) ==
    LET \* datetime.fromisoformat(s) in minutes since 2024-01-01 00:00, -1 when it
        \* raises ValueError.  The time texts carry no UTC offset, as the heartbeats of
        \* Uptime Kuma do, so any two parsed times compare.
        \* datetime.min is DatetimeMin
        DatetimeMin == -1000000
    IN
    IF HasTime(hb) THEN fromisoformat(Get(hb, "time", None).s) ELSE DatetimeMin

\* the key function of the first sort raises (ValueError) for some entry
ParseFails(hbs) == \E i \in DOMAIN hbs : HasTime(hbs[i]) /\ ParsedKey(hbs[i]) = -1

Unkey(keyed) == [i \in DOMAIN keyed |-> keyed[i].v]

\* SortByParsedTime that compares the raw strings instead
SortByParsedTime_lexical(hbs) ==
    Unkey(SortAsc([i \in DOMAIN hbs |->
                      [k |-> -LexRank(Get(hbs[i], "time", Str("")).s), v |-> hbs[i]]]))

SortByParsedTime(hbs) ==
    Unkey(SortAsc([i \in DOMAIN hbs |-> [k |-> -ParsedKey(hbs[i]), v |-> hbs[i]]]))

\* combined_heartbeats after the try/except around the two sorts
SortCombined(hbs) ==
    LET SortByTimeString ==
            Unkey(SortAsc([i \in DOMAIN hbs |->
                              [k |-> -LexRank(Get(hbs[i], "time", Str("")).s), v |-> hbs[i]]]))
    IN  IF ParseFails(hbs) THEN SortByTimeString ELSE SortByParsedTime(hbs)

LogEntry(monitor_name, hb) ==
    [name |-> monitor_name,
     status |-> IF PyEq(Get(hb, "status", None), Int_(1)) THEN Str("UP") ELSE Str("DOWN"),
     time |-> Get(hb, "time", Dash),
     message |-> Get(hb, "msg", Dash)]

\* HealthScore without the max(0, ...) around the ping term
HealthScore_unclamped(percent, ping_value) ==
    LET uptime_score == Mul(percent, Num(7, 10))
        ping_score == Mul(Sub(Int_(100), DivInt(ping_value, 10)), Num(3, 10))
    IN  Round(Add(uptime_score, ping_score), 1)

\* the weighted health score: 70% uptime, 30% ping on a 0..100 scale
HealthScore(percent, ping_value) ==
    LET uptime_score == Mul(percent, Num(7, 10))
        scaled == Sub(Int_(100), DivInt(ping_value, 10))
        ping_score == Mul(IF Less(scaled, Int_(0)) THEN Int_(0) ELSE scaled, Num(3, 10))
    IN  Round(Add(uptime_score, ping_score), 1)

\* health_score that scores a missing average ping as 0 ms
health_score_zero_default(percent24, avg_ping) ==
    IF ~PyEq(percent24, Dash)
    THEN HealthScore(percent24, IF PyEq(avg_ping, Dash) THEN Int_(0) ELSE avg_ping)
    ELSE Dash

\* health_score: computed only when both the 24-hour percentage and the
\* calculated average ping are not the sentinel
health_score(percent24, avg_ping) ==
    IF ~PyEq(percent24, Dash) /\ ~PyEq(avg_ping, Dash)
    THEN HealthScore(percent24, avg_ping)
    ELSE Dash

\* avg_ping_calculated that is 0 for an empty list of pings
avg_ping_calculated_zero(valid_pings) ==
    IF valid_pings # <<>> THEN DivInt(Sum(valid_pings), Len(valid_pings)) ELSE Int_(0)

\* sum(valid_pings) / len(valid_pings) if valid_pings else None
avg_ping_calculated(valid_pings) ==
    IF valid_pings # <<>> THEN DivInt(Sum(valid_pings), Len(valid_pings)) ELSE None

NoMonitor ==
    LET NoLists == [k \in {} |-> <<>>]
    IN
    [f |-> EmptyDict, lists |-> NoLists]
GetList(lists, k) == IF k \in DOMAIN lists THEN lists[k] ELSE <<>>

\* "if not data": the bundle has no key at all
BundleIsEmpty(data) ==
    /\ data.monitor.p = "absent"
    /\ data.heartbeats.p = "absent"
    /\ data.important_heartbeats.p = "absent"
    /\ data.uptime.p = "absent"
    /\ data.cert_info.p = "absent"
    /\ data.avg_ping = Absent

MonitorStatisticsResource_transform(data) ==
    LET \* the fallback sort compares x.get("time", "") of two entries; a None among
        \* two or more keys raises TypeError, and nothing catches it
        FallbackRaises(hbs) ==
            /\ Len(hbs) >= 2
            /\ \E i \in DOMAIN hbs : Get(hbs[i], "time", Str("")).t # "str"
    IN
    IF BundleIsEmpty(data) THEN Return(EmptyDict)
    ELSE
    LET monitor == data.monitor.v
        heartbeats == data.heartbeats.v
        important_heartbeats == data.important_heartbeats.v
        recent_heartbeats ==
            [i \in 1..(IF RecentCap <= Len(heartbeats) THEN RecentCap ELSE Len(heartbeats)) |->
                HeartbeatResource_transform(heartbeats[i])]
        transformed_important_heartbeats ==
            [i \in 1..(IF ImportantCap <= Len(important_heartbeats) THEN ImportantCap
                       ELSE Len(important_heartbeats)) |->
                HeartbeatResource_transform(important_heartbeats[i])]
        all_heartbeats == heartbeats \o important_heartbeats
        valid_pings == SelectPings(all_heartbeats)
        uptime_data == UptimeResource_transform(data.uptime)
        status_changes == CountChanges(heartbeats)
        last_status_change_time == FirstImportantTime(heartbeats)
        ping_stability == IF Len(valid_pings) > 1 THEN stdev(valid_pings) ELSE Dash
        combined_heartbeats == SortCombined(all_heartbeats)
        monitor_name == Get(monitor.f, "name", Str("Unknown"))
        log_entries ==
            [i \in DOMAIN combined_heartbeats |-> LogEntry(monitor_name, combined_heartbeats[i])]
        avg_clean == clean_value(avg_ping_calculated(valid_pings))
        percent24 == Get(uptime_data, "24h_percent", Dash)
    IN  IF data.heartbeats.p = "none" \/ data.important_heartbeats.p = "none"
        THEN Raise("TypeError")
        ELSE IF \E i \in DOMAIN valid_pings : ~IsNumber(valid_pings[i])
        THEN Raise("TypeError")
        ELSE IF UptimeRaises(data.uptime)
        THEN Raise("TypeError")
        ELSE IF ParseFails(all_heartbeats) /\ FallbackRaises(all_heartbeats)
        THEN Raise("TypeError")
        ELSE IF data.monitor.p = "none" \/ CertRaises(data.cert_info)
        THEN Raise("AttributeError")
        ELSE Return(
          [id |-> clean_value(Get(monitor.f, "id", None)),
           name |-> clean_value(Get(monitor.f, "name", None)),
           url |-> clean_value(Get(monitor.f, "url", None)),
           type |-> clean_value(Get(monitor.f, "type", None)),
           description |-> clean_value(Get(monitor.f, "description", None)),
           method |-> clean_value(Get(monitor.f, "method", None)),
           status |-> IF Truthy(Get(monitor.f, "active", None)) THEN Int_(1) ELSE Int_(0),
           active |-> Bool(Truthy(Get(monitor.f, "active", None))),
           maintenance |-> Bool(Truthy(Get(monitor.f, "maintenance", None))),
           interval |-> clean_value(Get(monitor.f, "interval", None)),
           timeout |-> clean_value(Get(monitor.f, "timeout", None)),
           avg_ping |-> clean_value(IF data.avg_ping = Absent THEN None ELSE data.avg_ping),
           avg_ping_calculated |-> avg_clean,
           uptime |-> uptime_data,
           cert_info |-> CertificateInfoResource_transform(data.cert_info),
           recent_heartbeats |-> recent_heartbeats,
           heartbeats_count |-> Len(heartbeats),
           important_heartbeats |-> transformed_important_heartbeats,
           important_heartbeats_count |-> Len(important_heartbeats),
           tags |-> clean_list(GetList(monitor.lists, "tags")),
           notification_ids |-> clean_list(GetList(monitor.lists, "notificationIDList")),
           weight |-> clean_value(Get(monitor.f, "weight", None)),
           accepted_statuscodes |-> clean_list(GetList(monitor.lists, "accepted_statuscodes")),
           maxredirects |-> clean_value(Get(monitor.f, "maxredirects", None)),
           dns_resolve_type |-> clean_value(Get(monitor.f, "dns_resolve_type", None)),
           dns_resolve_server |-> clean_value(Get(monitor.f, "dns_resolve_server", None)),
           status_changes_count |-> status_changes,
           last_status_change |-> clean_value(last_status_change_time),
           ping_stability |-> ping_stability,
           logs |-> log_entries,
           ping_quality |-> PingQuality(avg_clean),
           health_score |-> health_score(percent24, avg_clean)])

-----------------------------------------------------------------------------
(* UptimeKumaInfoResource.transform and camel_to_snake                     *)

\* camel_to_snake over the instance-info and monitor keys the vendor sends; a
\* name without a capital letter is returned as it is
camel_to_snake(name) ==
    CASE name = "latestVersion" -> "latest_version"
      [] name = "primaryBaseURL" -> "primary_base_url"
      [] name = "serverTimezone" -> "server_timezone"
      [] name = "memTotal" -> "mem_total"
      [] name = "memUsed" -> "mem_used"
      [] name = "forceInactive" -> "force_inactive"
      [] name = "notificationIDList" -> "notification_id_list"
      [] name = "childrenIDs" -> "children_i_ds"
      [] name = "kafkaProducerBrokers" -> "kafka_producer_brokers"
      [] OTHER -> name

\* the instance info is [f: dict of scalars, database_size: entry of a dict]
NoInfo == [f |-> EmptyDict, database_size |-> Missing(EmptyDict)]

UptimeKumaInfoResource_transform(info) ==
    LET \* clean_value on a dict of scalars
        clean_dict(dict) == [k \in DOMAIN dict |-> clean_value(dict[k])]
    IN
    LET MemoryUsagePercent(mem_used, mem_total) ==
            IF ~PyEq(mem_total, Dash) /\ ~PyEq(mem_used, Dash)
            THEN IF ~IsNumber(mem_used) \/ ~IsNumber(mem_total) \/ mem_total.n = 0
                 THEN Dash
                 ELSE Round(Mul(Num(mem_used.n * mem_total.d, mem_used.d * mem_total.n), Int_(100)), 2)
            ELSE Dash
    IN
    LET InfoIsEmpty ==
            \/ info.p # "val"
            \/ DOMAIN info.v.f = {} /\ info.v.database_size.p = "absent"
    IN
    IF InfoIsEmpty THEN [f |-> EmptyDict, database_size |-> Missing(EmptyDict)]
    ELSE LET raw == info.v.f
             snake == {camel_to_snake(k) : k \in DOMAIN raw}
             source(sk) == CHOOSE k \in DOMAIN raw : camel_to_snake(k) = sk
             cleaned == [sk \in snake |-> clean_value(raw[source(sk)])]
             withMem ==
                 IF "mem_total" \in snake /\ "mem_used" \in snake
                 THEN [sk \in snake \cup {"memory_usage_percent"} |->
                          IF sk = "memory_usage_percent"
                          THEN MemoryUsagePercent(cleaned["mem_used"], cleaned["mem_total"])
                          ELSE cleaned[sk]]
                 ELSE cleaned
         IN  [f |-> withMem,
              database_size |->
                  IF info.v.database_size.p = "val"
                  THEN Present(clean_dict(info.v.database_size.v))
                  ELSE info.v.database_size]

-----------------------------------------------------------------------------
(* MonitorResource.transform, the normalizer of one monitor mapping.  A    *)
(* mapping is [f: dict of scalars, lists: dict of lists]; no two keys of   *)
(* an input have the same snake_case form.                                 *)

MonitorResource_transform(raw) ==
    IF DOMAIN raw.f = {} /\ DOMAIN raw.lists = {} THEN NoMonitor
    ELSE LET snake == {camel_to_snake(k) : k \in DOMAIN raw.f}
             source(sk) == CHOOSE k \in DOMAIN raw.f : camel_to_snake(k) = sk
             list_snake == {camel_to_snake(k) : k \in DOMAIN raw.lists}
             list_source(sk) == CHOOSE k \in DOMAIN raw.lists : camel_to_snake(k) = sk
             \* the four fields set after the loop, from the keys of the input
             flags == [active |-> Bool(Truthy(Get(raw.f, "active", None))),
                       force_inactive |-> Bool(Truthy(Get(raw.f, "forceInactive", None))),
                       status |-> IF Truthy(Get(raw.f, "active", None)) THEN Int_(1) ELSE Int_(0),
                       maintenance |-> Bool(Truthy(Get(raw.f, "maintenance", None)))]
             \* a list field whose cleaned value is not a list becomes []
             list_fields == {"children_ids", "notification_id_list", "tags",
                             "kafka_producer_brokers"}
             emptied == snake \cap list_fields
         IN  [f |-> [k \in (snake \cup DOMAIN flags) \ emptied |->
                        IF k \in DOMAIN flags THEN flags[k]
                        ELSE clean_value(raw.f[source(k)])],
              lists |-> [k \in list_snake \cup emptied |->
                            IF k \in emptied THEN <<>>
                            ELSE clean_list(raw.lists[list_source(k)])]]

-----------------------------------------------------------------------------
(* AllMonitorsStatisticsResource.transform.  The monitors dict is the      *)
(* sequence of its items in insertion order: [id, data].                   *)

\* int(monitor_id) for an int or a decimal string key
int(monitor_id) ==
    IF monitor_id.t = "num" THEN monitor_id
    ELSE CASE monitor_id.s = "1" -> Int_(1)
           [] monitor_id.s = "2" -> Int_(2)
           [] monitor_id.s = "3" -> Int_(3)
           [] OTHER -> Int_(0)

RECURSIVE Filter(_, _)
\* the items of seq whose index is in keep, in order
Filter(seq, keep) ==
    IF seq = <<>> THEN <<>>
    ELSE Filter(SubSeq(seq, 1, Len(seq) - 1), keep)
         \o (IF Len(seq) \in keep THEN <<seq[Len(seq)]>> ELSE <<>>)


\* IsUp that forgets the maintenance flag
IsUp_any(m) == PyEq(Get(m, "status", None), Int_(1))

IsUp(m) == PyEq(Get(m, "status", None), Int_(1)) /\ ~Truthy(Get(m, "maintenance", None))

\* IsDown that forgets the maintenance flag
IsDown_any(m) == PyEq(Get(m, "status", None), Int_(0))

IsDown(m) == PyEq(Get(m, "status", None), Int_(0)) /\ ~Truthy(Get(m, "maintenance", None))

\* IsMaintenance that is never true
IsMaintenance_never(m) == FALSE

\* IsMaintenance that takes a monitor under maintenance only when it is not up
IsMaintenance_inactive(m) ==
    Truthy(Get(m, "maintenance", None)) /\ ~PyEq(Get(m, "status", None), Int_(1))

IsMaintenance(m) == Truthy(Get(m, "maintenance", None))

FleetIsEmpty(data) == data.monitors.p = "absent" /\ data.uptime_kuma_info.p = "absent"

\* monitors.sort(key=lambda x: x.get("name", "").lower())
SortByName(unsorted) ==
    LET \* rank of name.lower() in the str order:
        \* "" < "-" < "alpha" < "beta" < "gamma" < "unknown"
        LowerRank(name) ==
            CASE name = "" -> 0
              [] name = "-" -> 1
              [] name \in {"Alpha", "alpha"} -> 2
              [] name \in {"Beta", "beta"} -> 3
              [] name \in {"Gamma", "gamma"} -> 4
              [] OTHER -> 5
    IN
    Unkey(SortAsc([i \in DOMAIN unsorted |->
                      [k |-> LowerRank(Get(unsorted[i], "name", Str("")).s), v |-> unsorted[i]]]))

\* the groups, the averages and the returned dict, from the sorted monitors
FleetStatistics(data, monitors) ==
    LET \* m.get("important_heartbeats")[0].get(key) if the list is non-empty else "-"
        FirstImportant(m, key) ==
            IF "important_heartbeats" \in DOMAIN m /\ Len(m.important_heartbeats) > 0
            THEN Get(m.important_heartbeats[1], key, None)
            ELSE Dash
    IN
    LET \* datetime.now().isoformat()
        CurrentTime == Str("2024-01-03T00:00:00")
    IN
    LET \* round(len(up) / (len(up) + len(down)) * 100, 2), the int 0 for no up and no down
        UpPercentage(up_count, down_count) ==
            IF up_count + down_count > 0
            THEN Round(Mul(Num(up_count, up_count + down_count), Int_(100)), 2)
            ELSE Int_(0)
    IN
    LET MaintenanceSummary(m) ==
            [id |-> Get(m, "id", None), name |-> Get(m, "name", None), url |-> Get(m, "url", None),
             status |-> Get(m, "status", None), active |-> Get(m, "active", None), type |-> Get(m, "type", None)]
    IN
    LET DownSummary(m) ==
            [id |-> Get(m, "id", None), name |-> Get(m, "name", None), url |-> Get(m, "url", None),
             status |-> Get(m, "status", None), active |-> Get(m, "active", None), type |-> Get(m, "type", None),
             last_error |-> FirstImportant(m, "msg"),
             down_since |-> FirstImportant(m, "time")]
    IN
    LET UpSummary(m) ==
            [id |-> Get(m, "id", None), name |-> Get(m, "name", None), url |-> Get(m, "url", None),
             status |-> Get(m, "status", None), active |-> Get(m, "active", None), type |-> Get(m, "type", None),
             avg_ping |-> Get(m, "avg_ping_calculated", None),
             ping_quality |-> Get(m, "ping_quality", None),
             uptime_24h |-> IF "uptime" \in DOMAIN m THEN Get(m.uptime, "24h_percent", None) ELSE None,
             health_score |-> Get(m, "health_score", None)]
    IN
    LET idx == DOMAIN monitors
        up_monitors == Filter(monitors, {i \in idx : IsUp(monitors[i])})
        down_monitors == Filter(monitors, {i \in idx : IsDown(monitors[i])})
        maintenance_monitors == Filter(monitors, {i \in idx : IsMaintenance(monitors[i])})
        scored == Filter(monitors, {i \in idx :
                     /\ ~PyEq(Get(monitors[i], "health_score", None), Dash)
                     /\ ~IsMaintenance(monitors[i])})
        health_scores == [i \in DOMAIN scored |-> Get(scored[i], "health_score", None)]
        avg_health_score ==
            IF health_scores # <<>>
            THEN IF \E i \in DOMAIN health_scores : ~IsNumber(health_scores[i])
                 THEN Dash
                 ELSE Round(DivInt(Sum(health_scores), Len(health_scores)), 1)
            ELSE Dash
        types == {Get(monitors[i], "type", None) : i \in {j \in idx :
                     ~PyEq(Get(monitors[j], "type", None), Dash)}}
        timed == Filter(monitors, {i \in idx :
                     /\ ~PyEq(Get(monitors[i], "avg_ping_calculated", None), Dash)
                     /\ ~IsMaintenance(monitors[i])})
        pings == [i \in DOMAIN timed |-> Get(timed[i], "avg_ping_calculated", None)]
    IN  IF \E i \in DOMAIN pings : ~IsNumber(pings[i])
        THEN Raise("TypeError")
        ELSE Return(
          [uptime_kuma_info |-> UptimeKumaInfoResource_transform(data.uptime_kuma_info),
           monitors |-> monitors,
           monitors_count |-> Len(monitors),
           up_monitors |-> [i \in DOMAIN up_monitors |-> UpSummary(up_monitors[i])],
           down_monitors |-> [i \in DOMAIN down_monitors |-> DownSummary(down_monitors[i])],
           maintenance_monitors |->
               [i \in DOMAIN maintenance_monitors |-> MaintenanceSummary(maintenance_monitors[i])],
           up_monitors_count |-> Len(up_monitors),
           down_monitors_count |-> Len(down_monitors),
           maintenance_monitors_count |-> Len(maintenance_monitors),
           up_percentage |-> UpPercentage(Len(up_monitors), Len(down_monitors)),
           timestamp |-> CurrentTime,
           avg_health_score |-> avg_health_score,
           monitor_types |-> types,
           monitors_by_type |->
               [ty \in types |-> Cardinality({i \in idx : PyEq(Get(monitors[i], "type", None), ty)})],
           avg_response_time |->
               IF Len(pings) > 0 THEN Round(DivInt(Sum(pings), Len(pings)), 2) ELSE Dash])

\* the loop over data["monitors"].items(), stats being the per-monitor results:
\* the first exception escapes; otherwise the records are sorted and summarised
FleetFromStats(data, items, stats) ==
    LET \* monitor_stats["id"] = int(monitor_id)
        WithId(monitor_stats, monitor_id) ==
            IF DOMAIN monitor_stats = {}
            THEN [id |-> int(monitor_id)]
            ELSE [monitor_stats EXCEPT !.id = int(monitor_id)]
    IN
    IF \E i \in DOMAIN stats : Raised(stats[i])
    THEN Raise((stats[CHOOSE i \in DOMAIN stats :
                         Raised(stats[i]) /\ \A j \in 1..(i - 1) : ~Raised(stats[j])]).exc)
    ELSE FleetStatistics(data, SortByName([i \in DOMAIN items |->
                                              WithId(stats[i].out, items[i].id)]))

AllMonitorsStatisticsResource_transform(data) ==
    IF FleetIsEmpty(data) THEN Return(EmptyDict)
    ELSE IF data.monitors.p = "none" THEN Raise("AttributeError")
    ELSE FleetFromStats(data, data.monitors.v,
                        [i \in DOMAIN data.monitors.v |->
                            MonitorStatisticsResource_transform(data.monitors.v[i].data)])

-----------------------------------------------------------------------------
(* Credentials service and HTTP routing                                    *)

Usernames == {"alice", "bob"}
Passwords == {"pw", "guess"}

\* settings.ACCESS_TOKEN_EXPIRE_MINUTES
TokenExpireMinutes == 30
\* the clock advances in steps of TickMinutes, MaxTicks times at most
TickMinutes == 15
MaxTicks == 1

\* jwt.encode({"sub": username, "exp": expire}, secret_key): the same claims
\* give the same token; sig tells whether secret_key signed it
Jwt(username, expire) == [sub |-> username, exp |-> expire, sig |-> "good"]
\* what a client without the secret key can put in the Authorization header
ForgedTokens == {[sub |-> u, exp |-> MaxTicks * TickMinutes + TokenExpireMinutes, sig |-> "bad"] :
                    u \in Usernames}
NoHeader == [sub |-> "", exp |-> 0, sig |-> "no header"]

\* jwt.decode(token, secret_key): the payload, or JWTError / ExpiredSignatureError
JwtDecodes(token, clock) == token.sig = "good" /\ token.exp >= clock

\* CredentialsService.verify_token: TRUE when the payload is returned, FALSE for 401
verify_token(db_creds, token, clock) ==
    /\ JwtDecodes(token, clock)
    /\ \E row \in db_creds :
          /\ row.token = token
          /\ row.token_expires_at > clock
          /\ row.is_active

\* a verifier that trusts every token jwt.decode accepts
verify_user_token_decoded(db_users, token, clock) ==
    JwtDecodes(token, clock) /\ token.sub # ""

\* a verifier that looks for an unexpired token in the row of the subject
\* without comparing it with the one presented
verify_user_token_unmatched(db_users, token, clock) ==
    /\ JwtDecodes(token, clock)
    /\ token.sub # ""
    /\ \E row \in db_users : row.username = token.sub /\ row.token_expires_at > clock

\* CredentialsService.verify_user_token: TRUE when the user is returned, FALSE for 401
verify_user_token(db_users, token, clock) ==
    /\ JwtDecodes(token, clock)
    /\ token.sub # ""
    /\ \E row \in db_users :
          /\ row.username = token.sub
          /\ row.token = token
          /\ row.token_expires_at > clock

\* CredentialsService.authenticate_user: the matching row, if the password verifies
Authenticated(db_users, username, password) ==
    {row \in db_users : row.username = username /\ row.hashed_password = password}

\* CredentialsService.login_token: store a fresh token in the user's row
login_token(db_users, user_id, username, clock) ==
    {IF row.id = user_id
     THEN [row EXCEPT !.token = Jwt(username, clock + TokenExpireMinutes),
                      !.token_expires_at = clock + TokenExpireMinutes]
     ELSE row : row \in db_users}

\* CredentialsService.create_access_token: update the row of (user, service) or add one
create_access_token(db_creds, user_id, username, service_name, clock) ==
    LET token == Jwt(username, clock + TokenExpireMinutes)
        existing == {row \in db_creds : row.user_id = user_id /\ row.service_name = service_name}
    IN  IF existing # {}
        THEN LET first == CHOOSE row \in existing : \A other \in existing : row.id <= other.id
             IN  {IF row.id = first.id
                  THEN [row EXCEPT !.token = token,
                                   !.token_expires_at = clock + TokenExpireMinutes,
                                   !.is_active = TRUE]
                  ELSE row : row \in db_creds}
        ELSE db_creds \cup {[id |-> Cardinality(db_creds) + 1, user_id |-> user_id,
                             service_name |-> service_name, token |-> token,
                             token_expires_at |-> clock + TokenExpireMinutes,
                             is_active |-> TRUE]}

\* routers of api_router: the four included with dependencies=[Depends(security)],
\* and the health router included without
ProtectedRoutes == {"uptime-kuma", "prometheus", "grafana", "proxmox"}

Handled(route, token, status, upstream) ==
    [route |-> route, token |-> token, status |-> status, upstream |-> upstream]
NoRequest == Handled("", NoHeader, 0, FALSE)

\* POST /credentials/register
register_user(username, password) ==
    /\ IF \E row \in users : row.username = username
       THEN /\ requests' = Handled("register", NoHeader, 400, FALSE)
            /\ UNCHANGED <<users, issued>>
       ELSE LET id == Cardinality(users) + 1
                inserted == users \cup {[id |-> id, username |-> username,
                                         hashed_password |-> password,
                                         token |-> [sub |-> "", exp |-> 0, sig |-> "null"], token_expires_at |-> 0]}
            IN  /\ users' = login_token(inserted, id, username, now)
                /\ issued' = issued \cup {Jwt(username, now + TokenExpireMinutes)}
                /\ requests' = Handled("register", NoHeader, 201, FALSE)
    /\ UNCHANGED <<pc, bundle, result, fleet, fleetResult, creds, now,
                 raw_monitor, normalized, current_time, instances, tasks, loop_holder, calls,
                 health, operations, sessions, kuma_service>>

\* POST /credentials/login
login(username, password) ==
    /\ LET found == Authenticated(users, username, password)
       IN  IF found = {}
           THEN /\ requests' = Handled("login", NoHeader, 401, FALSE)
                /\ UNCHANGED <<users, issued>>
           ELSE LET user == CHOOSE row \in found : TRUE
                IN  /\ users' = login_token(users, user.id, username, now)
                    /\ issued' = issued \cup {Jwt(username, now + TokenExpireMinutes)}
                    /\ requests' = Handled("login", NoHeader, 200, FALSE)
    /\ UNCHANGED <<pc, bundle, result, fleet, fleetResult, creds, now,
                 raw_monitor, normalized, current_time, instances, tasks, loop_holder, calls,
                 health, operations, sessions, kuma_service>>

\* POST /credentials/token
login_for_access_token(username, password, service_name) ==
    /\ LET found == Authenticated(users, username, password)
       IN  IF found = {}
           THEN /\ requests' = Handled("token", NoHeader, 401, FALSE)
                /\ UNCHANGED <<creds, issued>>
           ELSE LET user == CHOOSE row \in found : TRUE
                IN  /\ creds' = create_access_token(creds, user.id, username, service_name, now)
                    /\ issued' = issued \cup {Jwt(username, now + TokenExpireMinutes)}
                    /\ requests' = Handled("token", NoHeader, 200, FALSE)
    /\ UNCHANGED <<pc, bundle, result, fleet, fleetResult, users, now,
                 raw_monitor, normalized, current_time, instances, tasks, loop_holder, calls,
                 health, operations, sessions, kuma_service>>

\* A request to a route of one of the four service routers.  The only
\* dependency is HTTPBearer(): it answers 403 when there is no Authorization
\* header and otherwise hands the credentials on; the endpoint never looks at
\* them and calls the upstream service.
protected_request(route, token) ==
    /\ IF token = NoHeader
       THEN requests' = Handled(route, token, 403, FALSE)
       ELSE requests' = Handled(route, token, 200, TRUE)
    /\ UNCHANGED <<pc, bundle, result, fleet, fleetResult, users, creds, now, issued,
                 raw_monitor, normalized, current_time, instances, tasks, loop_holder, calls,
                 health, operations, sessions, kuma_service>>

\* GET /health/: no dependency at all, every configured service is probed
health_check(token) ==
    /\ requests' = Handled("health", token, 200, TRUE)
    /\ UNCHANGED <<pc, bundle, result, fleet, fleetResult, users, creds, now, issued,
                 raw_monitor, normalized, current_time, instances, tasks, loop_holder, calls,
                 health, operations, sessions, kuma_service>>

\* DELETE /credentials/service-credentials/{credential_id}: HTTPBearer() answers
\* 403 without an Authorization header, get_current_user answers 401 when
\* verify_user_token rejects the token, and the endpoint body then stops at
\* its first statement, which uses the names select and ServiceCredentials
\* that the module never imports (NameError, answered 500); no row is touched
delete_service_credential(credential_id, token) ==
    /\ requests' = Handled("service-credentials", token,
                           IF token = NoHeader THEN 403
                           ELSE IF ~verify_user_token(users, token, now) THEN 401
                           ELSE 500, FALSE)
    /\ UNCHANGED <<pc, bundle, result, fleet, fleetResult, users, creds, now, issued,
                 raw_monitor, normalized, current_time, instances, tasks, loop_holder, calls,
                 health, operations, sessions, kuma_service>>

\* a call of CredentialsService.verify_token with a token: the payload is
\* returned (200) or HTTPException(401) is raised
call_verify_token(token) ==
    /\ requests' = Handled("verify_token", token,
                           IF verify_token(creds, token, now) THEN 200 ELSE 401, FALSE)
    /\ UNCHANGED <<pc, bundle, result, fleet, fleetResult, users, creds, now, issued,
                 raw_monitor, normalized, current_time, instances, tasks, loop_holder, calls,
                 health, operations, sessions, kuma_service>>

\* time passes
Tick ==
    /\ now < MaxTicks * TickMinutes
    /\ now' = now + TickMinutes
    /\ UNCHANGED <<pc, bundle, result, fleet, fleetResult, users, creds, issued, requests,
                 raw_monitor, normalized, current_time, instances, tasks, loop_holder, calls,
                 health, operations, sessions, kuma_service>>

-----------------------------------------------------------------------------
(* Requests served at the same time.  register_user, login and             *)
(* login_for_access_token are plain "def" endpoints: the framework runs    *)
(* each in a worker thread with a database session of its own (get_db), so *)
(* the statements of two requests interleave between one db.execute or     *)
(* db.commit and the next.                                                 *)

\* worker threads serving requests at the same time
MaxWorkers == 2

Idle == [pc |-> "idle", op |-> "", username |-> "", user_id |-> 0, existing |-> 0,
         expire |-> 0, status |-> 0]

\* INSERT INTO users with the table's own checks and no others
insert_user_unconstrained(db_users, row) == [raised |-> FALSE, rows |-> db_users \cup {row}]

\* db.add(db_user); db.commit() on the table users: username is declared
\* unique=True, so a second row with a stored username is IntegrityError
insert_user(db_users, row) ==
    IF \E other \in db_users : other.username = row.username
    THEN [raised |-> TRUE, rows |-> db_users]
    ELSE [raised |-> FALSE, rows |-> db_users \cup {row}]

\* POST /credentials/register up to create_user's SELECT by username: a row
\* found is HTTPException(400), which the endpoint re-raises.  Every username
\* registers with an e-mail address of its own.
create_user_select(t, username) ==
    /\ sessions[t].pc \in {"idle", "done"}
    /\ sessions' = [sessions EXCEPT ![t] =
          IF \E row \in users : row.username = username
          THEN [Idle EXCEPT !.pc = "done", !.op = "register", !.username = username,
                            !.status = 400]
          ELSE [Idle EXCEPT !.pc = "insert", !.op = "register", !.username = username]]
    /\ UNCHANGED <<pc, bundle, result, fleet, fleetResult, users, creds, now, issued, requests,
                 raw_monitor, normalized, current_time, instances, tasks, loop_holder, calls,
                 health, operations, kuma_service>>

\* create_user's db.add, db.commit: IntegrityError is caught by the
\* endpoint's "except Exception" and answered 400
create_user_insert(t) ==
    /\ sessions[t].pc = "insert"
    /\ LET id == Cardinality(users) + 1
           inserted == insert_user(users, [id |-> id, username |-> sessions[t].username,
                                           hashed_password |-> "pw",
                                           token |-> [sub |-> "", exp |-> 0, sig |-> "null"],
                                           token_expires_at |-> 0])
       IN  /\ users' = inserted.rows
           /\ sessions' = [sessions EXCEPT ![t] =
                 IF inserted.raised
                 THEN [@ EXCEPT !.pc = "done", !.status = 400]
                 ELSE [@ EXCEPT !.pc = "login_token", !.user_id = id]]
    /\ UNCHANGED <<pc, bundle, result, fleet, fleetResult, creds, now, issued, requests,
                 raw_monitor, normalized, current_time, instances, tasks, loop_holder, calls,
                 health, operations, kuma_service>>

\* create_user's call of login_token for the row it inserted, and the answer 201
create_user_login_token(t) ==
    /\ sessions[t].pc = "login_token"
    /\ users' = login_token(users, sessions[t].user_id, sessions[t].username, now)
    /\ issued' = issued \cup {Jwt(sessions[t].username, now + TokenExpireMinutes)}
    /\ sessions' = [sessions EXCEPT ![t] = [@ EXCEPT !.pc = "done", !.status = 201]]
    /\ UNCHANGED <<pc, bundle, result, fleet, fleetResult, creds, now, requests,
                 raw_monitor, normalized, current_time, instances, tasks, loop_holder, calls,
                 health, operations, kuma_service>>

\* POST /credentials/token up to create_access_token's SELECT: authenticate_user
\* (401 when it fails), the token and its expiry, then the first row of
\* (user_id, service_name), if any
create_access_token_select(t, username, password, service_name) ==
    /\ sessions[t].pc \in {"idle", "done"}
    /\ LET found == Authenticated(users, username, password)
       IN  sessions' = [sessions EXCEPT ![t] =
              IF found = {}
              THEN [Idle EXCEPT !.pc = "done", !.op = "token", !.username = username,
                                !.status = 401]
              ELSE LET user == CHOOSE row \in found : TRUE
                       rows == {row \in creds : /\ row.user_id = user.id
                                                /\ row.service_name = service_name}
                   IN  [Idle EXCEPT !.pc = "commit", !.op = "token", !.username = username,
                                    !.user_id = user.id,
                                    !.expire = now + TokenExpireMinutes,
                                    !.existing = IF rows = {} THEN 0
                                                 ELSE (CHOOSE row \in rows :
                                                          \A other \in rows : row.id <= other.id).id]]
    /\ UNCHANGED <<pc, bundle, result, fleet, fleetResult, users, creds, now, issued, requests,
                 raw_monitor, normalized, current_time, instances, tasks, loop_holder, calls,
                 health, operations, kuma_service>>

\* create_access_token from "if existing_cred" on: UPDATE the row that was
\* read, or db.add a new one, then db.commit and the answer 200
create_access_token_commit(t, service_name) ==
    /\ sessions[t].pc = "commit"
    /\ LET token == Jwt(sessions[t].username, sessions[t].expire)
       IN  /\ creds' = IF sessions[t].existing # 0
                       THEN {IF row.id = sessions[t].existing
                             THEN [row EXCEPT !.token = token,
                                              !.token_expires_at = sessions[t].expire,
                                              !.is_active = TRUE]
                             ELSE row : row \in creds}
                       ELSE creds \cup {[id |-> Cardinality(creds) + 1,
                                         user_id |-> sessions[t].user_id,
                                         service_name |-> service_name, token |-> token,
                                         token_expires_at |-> sessions[t].expire,
                                         is_active |-> TRUE]}
           /\ issued' = issued \cup {token}
    /\ sessions' = [sessions EXCEPT ![t] = [@ EXCEPT !.pc = "done", !.status = 200]]
    /\ UNCHANGED <<pc, bundle, result, fleet, fleetResult, users, now, requests,
                 raw_monitor, normalized, current_time, instances, tasks, loop_holder, calls,
                 health, operations, kuma_service>>

-----------------------------------------------------------------------------
(* The service wrappers and their cache.  An endpoint declares its wrapper *)
(* as "service: ProxmoxService = Depends()": the framework calls the class *)
(* for every request, so each request works on an object of its own.  A   *)
(* value fetched upstream at time t is the number t.                       *)

\* self._cache_duration / cache_duration
CacheDuration == 300

MaxRequests == 3
TimeStep == 150
MaxTime == 450

\* ProxmoxService.__init__: _cache = {}, _cache_timestamp = {}; an
\* UptimeKumaService has neither attribute until its first cached call makes
\* both empty
NewService(cls) == [cls |-> cls, cache |-> EmptyDict, cache_timestamp |-> EmptyDict]

\* a cached read that notes the time of the refresh before it fetches
get_cached_data_stamped(self, key, t, fetch_ok) ==
    IF /\ key \in DOMAIN self.cache
       /\ key \in DOMAIN self.cache_timestamp
       /\ t - self.cache_timestamp[key] <= CacheDuration
    THEN [self |-> self, value |-> self.cache[key], fetched |-> FALSE, raised |-> FALSE]
    ELSE LET stamped == [self EXCEPT
                            !.cache_timestamp = [k \in DOMAIN self.cache_timestamp \cup {key} |->
                                                    IF k = key THEN t ELSE self.cache_timestamp[k]]]
         IN  IF ~fetch_ok
             THEN [self |-> stamped, value |-> 0, fetched |-> TRUE, raised |-> TRUE]
             ELSE [self |-> [stamped EXCEPT
                                !.cache = [k \in DOMAIN self.cache \cup {key} |->
                                              IF k = key THEN t ELSE self.cache[k]]],
                   value |-> t, fetched |-> TRUE, raised |-> FALSE]

\* one cached read at time t: the object afterwards, the value returned,
\* whether the upstream was called and whether that call raised.  The value
\* is stored by "self._cache[key] = fetch_func()" and, in the next statement,
\* its time; a fetch that raises leaves the method before either assignment.
get_cached_data(self, key, t, fetch_ok) ==
    IF /\ key \in DOMAIN self.cache
       /\ key \in DOMAIN self.cache_timestamp
       /\ t - self.cache_timestamp[key] <= CacheDuration
    THEN [self |-> self, value |-> self.cache[key], fetched |-> FALSE, raised |-> FALSE]
    ELSE IF ~fetch_ok
    THEN [self |-> self, value |-> 0, fetched |-> TRUE, raised |-> TRUE]
    ELSE [self |-> [self EXCEPT
                       !.cache = [k \in DOMAIN self.cache \cup {key} |->
                                     IF k = key THEN t ELSE self.cache[k]],
                       !.cache_timestamp = [k \in DOMAIN self.cache_timestamp \cup {key} |->
                                               IF k = key THEN t ELSE self.cache_timestamp[k]]],
          value |-> t, fetched |-> TRUE, raised |-> FALSE]

\* GET /proxmox/nodes (cache_key "nodes") and GET /proxmox/cluster (cache_key
\* "cluster_overview"), on the wrapper built for this request; an exception
\* of the upstream call is logged, re-raised and answered 500
proxmox_cached_get(cache_key, fetch_ok) ==
    /\ Len(instances) < MaxRequests
    /\ LET read == get_cached_data(NewService("ProxmoxService"), cache_key, current_time,
                                   fetch_ok)
       IN  /\ instances' = Append(instances, read.self)
           /\ requests' = Handled(cache_key, Jwt("alice", TokenExpireMinutes),
                                  IF read.raised THEN 500 ELSE 200, read.fetched)
    /\ UNCHANGED <<pc, bundle, result, fleet, fleetResult, users, creds, now, issued,
                   raw_monitor, normalized, current_time, tasks, loop_holder, calls, health,
                   operations, sessions, kuma_service>>

\* POST /proxmox/vms/{node}/{vmid}/start: upstream calls, the cache is not looked at
proxmox_start_vm ==
    /\ Len(instances) < MaxRequests
    /\ instances' = Append(instances, NewService("ProxmoxService"))
    /\ requests' = Handled("start_vm", Jwt("alice", TokenExpireMinutes), 200, TRUE)
    /\ UNCHANGED <<pc, bundle, result, fleet, fleetResult, users, creds, now, issued,
                   raw_monitor, normalized, current_time, tasks, loop_holder, calls, health,
                   operations, sessions, kuma_service>>

\* GET /uptime-kuma/monitors/statistics: eight cached reads, one after the
\* other, on the wrapper built for this request; the fetch of the key at
\* position failing raises (0: none does), which ends the request with 500
get_all_monitors_statistics(failing) ==
    /\ Len(instances) < MaxRequests
    /\ LET keys == <<"monitors", "info", "database_size", "avg_pings", "uptimes", "cert_infos",
                     "heartbeats", "important_heartbeats">>
           reads[i \in 0..Len(keys)] ==
               IF i = 0
               THEN [self |-> NewService("UptimeKumaService"), fetched |-> FALSE,
                     raised |-> FALSE]
               ELSE LET before == reads[i - 1]
                        read == get_cached_data(before.self, keys[i], current_time,
                                                i # failing)
                    IN  IF before.raised THEN before
                        ELSE [self |-> read.self, fetched |-> before.fetched \/ read.fetched,
                              raised |-> read.raised]
           after == reads[Len(keys)]
       IN  /\ instances' = Append(instances, after.self)
           /\ requests' = Handled("statistics", Jwt("alice", TokenExpireMinutes),
                                  IF after.raised THEN 500 ELSE 200, after.fetched)
    /\ UNCHANGED <<pc, bundle, result, fleet, fleetResult, users, creds, now, issued,
                   raw_monitor, normalized, current_time, tasks, loop_holder, calls, health,
                   operations, sessions, kuma_service>>

\* time.time() moves on between two requests
Advance ==
    /\ current_time + TimeStep <= MaxTime
    /\ current_time' = current_time + TimeStep
    /\ UNCHANGED <<pc, bundle, result, fleet, fleetResult, users, creds, now, issued, requests,
                   raw_monitor, normalized, instances, tasks, loop_holder, calls, health,
                   operations, sessions, kuma_service>>

-----------------------------------------------------------------------------
(* The event loop.  The server runs one event loop thread.  An endpoint    *)
(* declared "async def" runs on that thread, and the vendor SDK call its   *)
(* wrapper makes is a plain blocking call: nothing is awaited, so the      *)
(* thread stays inside the call until the upstream answers.  An endpoint   *)
(* declared "def" is run by the framework in a worker thread.              *)

\* some routes of the routers: the upstream they call ("" for none) and how
\* the endpoint is declared
Routes ==
    {[name |-> "proxmox/nodes", service |-> "proxmox", is_async |-> TRUE],
     [name |-> "grafana/dashboards", service |-> "grafana", is_async |-> TRUE],
     [name |-> "prometheus/query", service |-> "prometheus", is_async |-> TRUE],
     [name |-> "uptime-kuma/monitors/statistics", service |-> "uptime-kuma", is_async |-> TRUE],
     [name |-> "uptime-kuma/monitors", service |-> "uptime-kuma", is_async |-> FALSE],
     [name |-> "health/ping", service |-> "", is_async |-> TRUE]}

\* the upstream that may take for ever to answer
SlowService == "proxmox"

\* the server accepts a connection and queues the request for the event loop
accept_request(route) ==
    /\ Len(tasks) < MaxRequests
    /\ tasks' = Append(tasks, [route |-> route, st |-> "accepted"])
    /\ UNCHANGED <<pc, bundle, result, fleet, fleetResult, users, creds, now, issued, requests,
                   raw_monitor, normalized, current_time, instances, loop_holder, calls, health,
                   operations, sessions, kuma_service>>

\* the event loop, when it is free, starts the endpoint of a queued request:
\* an async endpoint runs on the loop into its blocking upstream call, a def
\* endpoint is handed to a worker thread and the loop stays free
run_endpoint(r) ==
    /\ r \in DOMAIN tasks
    /\ tasks[r].st = "accepted"
    /\ loop_holder = 0
    /\ tasks' = [tasks EXCEPT ![r].st = IF tasks[r].route.service = "" THEN "returned"
                                        ELSE "blocked"]
    /\ loop_holder' = IF tasks[r].route.is_async THEN r ELSE 0
    /\ UNCHANGED <<pc, bundle, result, fleet, fleetResult, users, creds, now, issued, requests,
                   raw_monitor, normalized, current_time, instances, calls, health, operations,
                   sessions, kuma_service>>

\* the upstream answers and the blocking call returns
upstream_returns(r) ==
    /\ r \in DOMAIN tasks
    /\ tasks[r].st = "blocked"
    /\ tasks' = [tasks EXCEPT ![r].st = "returned"]
    /\ UNCHANGED <<pc, bundle, result, fleet, fleetResult, users, creds, now, issued, requests,
                   raw_monitor, normalized, current_time, instances, loop_holder, calls, health,
                   operations, sessions, kuma_service>>

\* the event loop sends the response: the coroutine that holds the loop
\* finishes and releases it, the result of a worker thread waits for a free loop
send_response(r) ==
    /\ r \in DOMAIN tasks
    /\ tasks[r].st = "returned"
    /\ loop_holder \in {0, r}
    /\ tasks' = [tasks EXCEPT ![r].st = "done"]
    /\ loop_holder' = 0
    /\ UNCHANGED <<pc, bundle, result, fleet, fleetResult, users, creds, now, issued, requests,
                   raw_monitor, normalized, current_time, instances, calls, health, operations,
                   sessions, kuma_service>>

-----------------------------------------------------------------------------
(* The system health check, GET /health/.  The settings name the           *)
(* configured services (a non-empty URL); check_health of a wrapper        *)
(* returns True or raises what the vendor client raised.                   *)

\* the four services in the order the endpoint checks them
Services == <<"uptime_kuma", "prometheus", "grafana", "proxmox">>

\* the loop over services_status, with any status but "healthy" counted
overall_status_unknown(services_status) ==
    IF \E i \in DOMAIN services_status : services_status[i].status # "healthy"
    THEN "degraded" ELSE "healthy"

\* the loop over services_status: "enabled" is a non-empty string either way
overall_status(services_status) ==
    IF \E i \in DOMAIN services_status :
          services_status[i].enabled # "" /\ services_status[i].status = "unhealthy"
    THEN "degraded" ELSE "healthy"

\* a request arrives: the settings and what each upstream will answer
\* (type "" for a check that returns True)
begin_health_check(configured, outcome) ==
    /\ health.pc = "idle"
    /\ health' = [pc |-> "check", i |-> 1, configured |-> configured, outcome |-> outcome,
                  services_status |-> [k \in DOMAIN Services |->
                                          [status |-> "unknown", message |-> None,
                                           enabled |-> "false"]],
                  checked |-> [k \in DOMAIN Services |-> 0], overall |-> ""]
    /\ UNCHANGED <<pc, bundle, result, fleet, fleetResult, users, creds, now, issued, requests,
                   raw_monitor, normalized, current_time, instances, tasks, loop_holder, calls,
                   operations, sessions, kuma_service>>

\* the block of one service: skipped when its URL is empty, else one call of
\* check_health inside try/except Exception
check_health(i) ==
    /\ health.pc = "check"
    /\ health.i = i
    /\ LET e == health.outcome[i]
           entry == IF Services[i] \notin health.configured THEN health.services_status[i]
                    ELSE IF e.type = ""
                    THEN [status |-> "healthy", message |-> Str("Connected successfully"),
                          enabled |-> "true"]
                    ELSE [status |-> "unhealthy", message |-> Str(e.type \o ": " \o e.text),
                          enabled |-> "true"]
       IN  health' = [health EXCEPT
                         !.services_status[i] = entry,
                         !.checked[i] = IF Services[i] \in health.configured THEN @ + 1 ELSE @,
                         !.i = i + 1,
                         !.pc = IF i = Len(Services) THEN "summarize" ELSE "check"]
    /\ UNCHANGED <<pc, bundle, result, fleet, fleetResult, users, creds, now, issued, requests,
                   raw_monitor, normalized, current_time, instances, tasks, loop_holder, calls,
                   operations, sessions, kuma_service>>

\* the overall status and the response
health_response ==
    /\ health.pc = "summarize"
    /\ health' = [health EXCEPT !.pc = "done",
                                !.overall = overall_status(health.services_status)]
    /\ UNCHANGED <<pc, bundle, result, fleet, fleetResult, users, creds, now, issued, requests,
                   raw_monitor, normalized, current_time, instances, tasks, loop_holder, calls,
                   operations, sessions, kuma_service>>

-----------------------------------------------------------------------------
(* The mutating operations of the wrappers: an existence lookup, then the  *)
(* vendor call that changes something.  The vendor's answer to the lookup  *)
(* is "found" (a non-empty result), "nothing" (None or an empty result) or *)
(* "raises".                                                               *)

\* the common shape of the six handlers, without the test of the lookup's
\* result
lookup_then_mutate_unchecked(op, answer, lookup_call, mutate_call, id, done, missing) ==
    [op |-> op, id |-> id,
     calls |-> IF answer = "raises" THEN <<[call |-> lookup_call, id |-> id]>>
               ELSE <<[call |-> lookup_call, id |-> id], [call |-> mutate_call, id |-> id]>>,
     lookup |-> answer,
     returned |-> IF answer = "raises" THEN "raise: vendor error" ELSE done]

\* the common shape of the six handlers: the lookup; "if not <result>" ends
\* the handler with its not-found outcome; else the mutating call.  An
\* exception of the lookup is logged and raised again.
lookup_then_mutate(op, answer, lookup_call, mutate_call, id, done, missing) ==
    [op |-> op, id |-> id,
     calls |-> IF answer = "found"
               THEN <<[call |-> lookup_call, id |-> id], [call |-> mutate_call, id |-> id]>>
               ELSE <<[call |-> lookup_call, id |-> id]>>,
     lookup |-> answer,
     returned |-> CASE answer = "found" -> done
                    [] answer = "nothing" -> missing
                    [] OTHER -> "raise: vendor error"]

\* get_vm with the inner except clause left out: the vendor error escapes
get_vm_reraise(answer) == answer

\* ProxmoxService.get_vm: an exception of the two vendor reads is caught and
\* the VM counts as not found (None)
get_vm(answer) == IF answer = "found" THEN "found" ELSE "nothing"

update_monitor(monitor_id, answer) ==
    /\ Len(operations) < MaxRequests
    /\ operations' = Append(operations,
                          lookup_then_mutate("update_monitor", answer, "get_monitor", "edit_monitor", monitor_id,
                                             "MonitorRead",
                                             "None"))
    /\ UNCHANGED <<pc, bundle, result, fleet, fleetResult, users, creds, now, issued, requests,
                   raw_monitor, normalized, current_time, instances, tasks, loop_holder, calls,
                   health, sessions, kuma_service>>

delete_monitor(monitor_id, answer) ==
    /\ Len(operations) < MaxRequests
    /\ operations' = Append(operations,
                          lookup_then_mutate("delete_monitor", answer, "get_monitor", "delete_monitor", monitor_id,
                                             "True",
                                             "False"))
    /\ UNCHANGED <<pc, bundle, result, fleet, fleetResult, users, creds, now, issued, requests,
                   raw_monitor, normalized, current_time, instances, tasks, loop_holder, calls,
                   health, sessions, kuma_service>>

\* GrafanaService.delete_dashboard looks the dashboard up with its own
\* get_dashboard, which returns None for an empty vendor result
delete_dashboard(dashboard_uid, answer) ==
    /\ Len(operations) < MaxRequests
    /\ operations' = Append(operations,
                          lookup_then_mutate("delete_dashboard", answer, "get_dashboard", "delete_dashboard", dashboard_uid,
                                             "True",
                                             "False"))
    /\ UNCHANGED <<pc, bundle, result, fleet, fleetResult, users, creds, now, issued, requests,
                   raw_monitor, normalized, current_time, instances, tasks, loop_holder, calls,
                   health, sessions, kuma_service>>

start_vm(node, vmid, answer) ==
    /\ Len(operations) < MaxRequests
    /\ operations' = Append(operations,
                          lookup_then_mutate("start_vm", get_vm(answer), "get_vm", "status.start.post",
                                             <<node, vmid>>,
                                             "VM " \o vmid \o " start initiated",
                                             "raise: VM " \o vmid \o " not found on node " \o node))
    /\ UNCHANGED <<pc, bundle, result, fleet, fleetResult, users, creds, now, issued, requests,
                   raw_monitor, normalized, current_time, instances, tasks, loop_holder, calls,
                   health, sessions, kuma_service>>

stop_vm(node, vmid, answer) ==
    /\ Len(operations) < MaxRequests
    /\ operations' = Append(operations,
                          lookup_then_mutate("stop_vm", get_vm(answer), "get_vm", "status.stop.post",
                                             <<node, vmid>>,
                                             "VM " \o vmid \o " stop initiated",
                                             "raise: VM " \o vmid \o " not found on node " \o node))
    /\ UNCHANGED <<pc, bundle, result, fleet, fleetResult, users, creds, now, issued, requests,
                   raw_monitor, normalized, current_time, instances, tasks, loop_holder, calls,
                   health, sessions, kuma_service>>

delete_vm(node, vmid, answer) ==
    /\ Len(operations) < MaxRequests
    /\ operations' = Append(operations,
                          lookup_then_mutate("delete_vm", get_vm(answer), "get_vm", "qemu.delete", <<node, vmid>>,
                                             "True",
                                             "False"))
    /\ UNCHANGED <<pc, bundle, result, fleet, fleetResult, users, creds, now, issued, requests,
                   raw_monitor, normalized, current_time, instances, tasks, loop_holder, calls,
                   health, sessions, kuma_service>>

-----------------------------------------------------------------------------
(* Inputs of the transformers                                              *)

MaxHeartbeats == 2
MaxImportant == 1
MaxStatuses == 5
MaxRun == 13
MaxFleet == 3
MaxLargeFleet == 6

Lists(S, n) == UNION {[1..k -> S] : k \in 0..n}

DefaultHeartbeat ==
    [id |-> Int_(1), monitor_id |-> Int_(1), status |-> Int_(1), time |-> Str(T_Jan1_10),
     msg |-> Str("ok"), ping |-> Int_(50), duration |-> Int_(60), important |-> False,
     down_count |-> Int_(0)]

\* the heartbeat with one entry replaced, or removed when value is Absent
With(hb, key, value) ==
    Dict([k \in DOMAIN hb \cup {key} |-> IF k = key THEN value ELSE hb[k]])

UptimeOf24(value) == Present([k \in {"24"} |-> value])
DefaultUptime == UptimeOf24(Int_(1))

NoCert == [top |-> EmptyDict, certInfo |-> Missing(NoDetails)]
CertDetails(cn) ==
    [f |-> [fingerprint |-> Str("AA:BB"), serialNumber |-> Str(""), signatureAlgorithm |-> None],
     subject |-> Present([CN |-> cn, O |-> Str("Org")]),
     issuer |-> Present([CN |-> Str("CA"), C |-> None])]
CertOf(days, details) ==
    Present([top |-> [valid |-> True, valid_from |-> Str(T_Jan1_10), valid_to |-> None,
                      days_remaining |-> days],
             certInfo |-> details])

MonitorOf(name, active, maintenance, type) ==
    Present([f |-> Dict([id |-> Int_(1), name |-> name, url |-> Str("https://example.org"),
                         type |-> type, description |-> None, method |-> Str("GET"),
                         active |-> active, maintenance |-> maintenance,
                         interval |-> Int_(60), timeout |-> Absent, weight |-> Int_(2000),
                         maxredirects |-> Int_(10), dns_resolve_type |-> Str(""),
                         dns_resolve_server |-> Absent]),
             lists |-> [tags |-> <<Str("prod"), None, Str("")>>,
                        accepted_statuscodes |-> <<Str("200-299")>>]])
DefaultMonitor == MonitorOf(Str("Alpha"), True, False, Str("http"))

Bundle(monitor, heartbeats, important_heartbeats, uptime, cert_info, avg_ping) ==
    [monitor |-> monitor, heartbeats |-> heartbeats,
     important_heartbeats |-> important_heartbeats, uptime |-> uptime,
     cert_info |-> cert_info, avg_ping |-> avg_ping]

EmptyBundle ==
    Bundle(Missing(NoMonitor), Missing(<<>>), Missing(<<>>), Missing(EmptyDict),
           Missing(NoCert), Absent)

HeartbeatBundle(hbs, imps, uptime) ==
    Bundle(DefaultMonitor, Present(hbs), Present(imps), uptime, Missing(NoCert), Int_(42))

\* the bundle of one monitor of a fleet
FleetBundle(name, active, maintenance, type, ping, imps, uptime) ==
    Bundle(MonitorOf(name, active, maintenance, type),
           Present(<<With(DefaultHeartbeat, "ping", ping)>>), Present(imps), uptime,
           Missing(NoCert), Int_(42))

\* a monitor that is up, one that is down and one under maintenance
LargeFleetBundles ==
    {FleetBundle(Str("Alpha"), True, False, Str("http"), Int_(50), <<>>, DefaultUptime),
     FleetBundle(Str("beta"), False, False, Str("ping"), Int_(150),
                 <<Dict([DefaultHeartbeat EXCEPT !.status = Int_(0), !.msg = Str("timeout"),
                                                 !.important = True, !.ping = None])>>,
                 UptimeOf24(Num(1, 2))),
     FleetBundle(Str("Gamma"), True, True, Str("http"), Int_(450), <<>>, DefaultUptime)}
FleetBundles ==
    LargeFleetBundles
    \cup {FleetBundle(Str("Gamma"), False, True, Str("ping"), Int_(1200), <<>>, DefaultUptime)}
    \cup {FleetBundle(n, True, False, Str("http"), Int_(50), <<>>, DefaultUptime) :
             n \in {Str("beta"), None}}
    \cup {FleetBundle(Str("Alpha"), True, False, t, Int_(50), <<>>, DefaultUptime) :
             t \in {Str("ping"), None}}
    \cup {FleetBundle(Str("Alpha"), True, False, Str("http"), None, <<>>, DefaultUptime),
          FleetBundle(Str("Alpha"), True, False, Str("http"), Int_(150), <<>>, Missing(EmptyDict)),
          FleetBundle(Str("beta"), False, False, Str("http"), Int_(150), <<>>, DefaultUptime),
          FleetBundle(Str("beta"), False, False, Str("http"), Int_(150), <<EmptyDict>>,
                      DefaultUptime),
          EmptyBundle,
          Bundle(DefaultMonitor, Null(<<>>), Null(<<>>), DefaultUptime, Missing(NoCert), None)}

\* the monitors dict with int keys 1..n
IntKeys(bundles) == [i \in DOMAIN bundles |-> [id |-> Int_(i), data |-> bundles[i]]]

InfoOf(mem_total, mem_used, size) ==
    Present([f |-> Dict([version |-> Str("1.23.11"), latestVersion |-> None,
                         primaryBaseURL |-> Str(""), serverTimezone |-> Str("UTC"),
                         memTotal |-> mem_total, memUsed |-> mem_used]),
             database_size |-> size])
DefaultInfo == InfoOf(Int_(8), Int_(3), Present([size |-> Int_(1048576)]))

Fleet(monitors, info) == [monitors |-> monitors, uptime_kuma_info |-> info]
EmptyFleet == Fleet(Missing(<<>>), Missing(NoInfo))

-----------------------------------------------------------------------------
(* Concurrent calls of the two transformers on one input.  Each call has   *)
(* a frame of local variables; the input objects, bundle and fleet, are    *)
(* shared by the callers.  A list a call holds is either a new object or   *)
(* the input's own heartbeats list, and a write to the latter is a write   *)
(* to the input.                                                           *)

MaxCalls == 2

\* heartbeats + important_heartbeats: list.__add__ builds a new list; this
\* variant extends the left operand in place (heartbeats += ...)
ListAdd_inplace(a, b) == [fresh |-> FALSE, items |-> a \o b]

\* heartbeats + important_heartbeats: list.__add__ builds a new list
ListAdd(a, b) == [fresh |-> TRUE, items |-> a \o b]

\* the input of a per-monitor call after a write of items to the list a call
\* holds
Written(data, list, items) ==
    IF list.fresh THEN data ELSE [data EXCEPT !.heartbeats.v = items]

\* the callers share one bundle, whose heartbeats are not in time order, and
\* one fleet of that bundle and a second monitor; each call starts with an
\* empty frame
CallsInit ==
    /\ pc = "idle"
    /\ \E hbs \in [1..MaxHeartbeats ->
                      {Dict(DefaultHeartbeat),
                       Dict([DefaultHeartbeat EXCEPT !.time = Str(T_Bad), !.ping = None]),
                       Dict([DefaultHeartbeat EXCEPT !.time = Str(T_Jan2_08), !.status = Int_(0),
                                                     !.ping = Int_(300), !.important = True])}],
          imps \in [1..MaxImportant ->
                       {Dict([DefaultHeartbeat EXCEPT !.time = Str(T_Jan1_12),
                                                      !.ping = Int_(300)])}] :
          /\ bundle = HeartbeatBundle(hbs, imps, DefaultUptime)
          /\ fleet = Fleet(Present(IntKeys(<<HeartbeatBundle(hbs, imps, DefaultUptime),
                                             FleetBundle(Str("beta"), False, False, Str("ping"),
                                                         Int_(150), imps, UptimeOf24(Num(1, 2)))>>)),
                           DefaultInfo)
    /\ calls \in [1..MaxCalls ->
                    {[kind |-> kind, pc |-> "start", seen |-> EmptyBundle,
                      combined_heartbeats |-> [fresh |-> TRUE, items |-> <<>>],
                      stats |-> <<>>, out |-> NotRun] : kind \in {"monitor", "fleet"}}]
    /\ result = NotRun
    /\ fleetResult = NotRun
    /\ users = {}
    /\ creds = {}
    /\ now = 0
    /\ issued = {}
    /\ requests = NoRequest
    /\ raw_monitor = NoMonitor
    /\ normalized = NoMonitor
    /\ current_time = 0
    /\ instances = <<>>
    /\ tasks = <<>>
    /\ loop_holder = 0
    /\ kuma_service = [client |-> 0, attempts |-> 0, logged_in |-> {}, disconnected |-> {}, last |-> [op |-> "", raised |-> FALSE, value |-> 0]]
    /\ sessions = <<>>
    /\ operations = <<>>
    /\ health = [pc |-> "idle"]

\* a per-monitor call reads its input, computes the previews and the
\* statistics of the lists, and concatenates the two lists
combine_heartbeats(t) ==
    /\ calls[t].kind = "monitor"
    /\ calls[t].pc = "start"
    /\ LET list == ListAdd(bundle.heartbeats.v, bundle.important_heartbeats.v)
       IN  /\ calls' = [calls EXCEPT ![t].pc = "combined", ![t].seen = bundle,
                                      ![t].combined_heartbeats = list]
           /\ bundle' = Written(bundle, list, list.items)
    /\ UNCHANGED <<pc, result, fleet, fleetResult, users, creds, now, issued, requests,
                   raw_monitor, normalized, current_time, instances, tasks, loop_holder, health,
                   operations, sessions, kuma_service>>

\* combined_heartbeats.sort(...): the list the call holds is sorted in place
sort_combined(t) ==
    /\ calls[t].kind = "monitor"
    /\ calls[t].pc = "combined"
    /\ LET list == calls[t].combined_heartbeats
           sorted == SortCombined(list.items)
       IN  /\ calls' = [calls EXCEPT ![t].pc = "sorted", ![t].combined_heartbeats.items = sorted]
           /\ bundle' = Written(bundle, list, sorted)
    /\ UNCHANGED <<pc, result, fleet, fleetResult, users, creds, now, issued, requests,
                   raw_monitor, normalized, current_time, instances, tasks, loop_holder, health,
                   operations, sessions, kuma_service>>

\* the call builds the log entries from its sorted list and returns the dict
build_result(t) ==
    /\ calls[t].kind = "monitor"
    /\ calls[t].pc = "sorted"
    /\ LET stats == MonitorStatisticsResource_transform(calls[t].seen)
           sorted == calls[t].combined_heartbeats.items
           monitor_name == Get(bundle.monitor.v.f, "name", Str("Unknown"))
       IN  calls' = [calls EXCEPT
                        ![t].pc = "done",
                        ![t].out = IF Raised(stats) THEN stats
                                   ELSE Return([stats.out EXCEPT
                                                   !.logs = [i \in DOMAIN sorted |->
                                                                LogEntry(monitor_name, sorted[i])]])]
    /\ UNCHANGED <<pc, bundle, result, fleet, fleetResult, users, creds, now, issued, requests,
                   raw_monitor, normalized, current_time, instances, tasks, loop_holder, health,
                   operations, sessions, kuma_service>>

\* one round of the loop of the fleet call: the per-monitor transform of the
\* next monitor, with the writes that call makes to the list it sorts
collect_monitor(t) ==
    /\ calls[t].kind = "fleet"
    /\ calls[t].pc = "start"
    /\ Len(calls[t].stats) < Len(fleet.monitors.v)
    /\ LET i == Len(calls[t].stats) + 1
           data == fleet.monitors.v[i].data
           list == ListAdd(data.heartbeats.v, data.important_heartbeats.v)
       IN  /\ calls' = [calls EXCEPT
                            ![t].stats = Append(@, MonitorStatisticsResource_transform(data))]
           /\ fleet' = [fleet EXCEPT
                            !.monitors.v[i].data = Written(data, list, SortCombined(list.items))]
    /\ UNCHANGED <<pc, bundle, result, fleetResult, users, creds, now, issued, requests,
                   raw_monitor, normalized, current_time, instances, tasks, loop_holder, health,
                   operations, sessions, kuma_service>>

\* after the loop the fleet call sorts its own list of results and builds
\* the groups and the averages
summarize_fleet(t) ==
    /\ calls[t].kind = "fleet"
    /\ calls[t].pc = "start"
    /\ Len(calls[t].stats) = Len(fleet.monitors.v)
    /\ calls' = [calls EXCEPT ![t].pc = "done",
                               ![t].out = FleetFromStats(fleet, fleet.monitors.v, calls[t].stats)]
    /\ UNCHANGED <<pc, bundle, result, fleet, fleetResult, users, creds, now, issued, requests,
                   raw_monitor, normalized, current_time, instances, tasks, loop_holder, health,
                   operations, sessions, kuma_service>>

-----------------------------------------------------------------------------
(* The client handle of UptimeKumaService.  A client is the number of the  *)
(* connection attempt that made it; the handle 0 is None.                  *)

\* connection attempts of one service object
MaxConnections == 5

\* close() without its "finally": the handle is cleared after a clean
\* disconnect only
close_unless_raised(disconnect_ok) ==
    /\ kuma_service' =
          IF kuma_service.client = 0
          THEN [kuma_service EXCEPT !.last = [op |-> "close", raised |-> FALSE, value |-> 0]]
          ELSE [kuma_service EXCEPT
                   !.client = IF disconnect_ok THEN 0 ELSE @,
                   !.disconnected = @ \cup {kuma_service.client},
                   !.last = [op |-> "close", raised |-> FALSE,
                             value |-> IF disconnect_ok THEN 0 ELSE -1]]
    /\ UNCHANGED <<pc, bundle, result, fleet, fleetResult, users, creds, now, issued, requests,
                   raw_monitor, normalized, current_time, instances, tasks, loop_holder, calls,
                   health, operations, sessions>>

\* UptimeKumaService._get_client, the first statement of every method that
\* talks to Uptime Kuma.  With a handle it returns the handle.  Without one it
\* calls UptimeKumaApi(url), which connects, and client.login(...): an
\* exception of either is logged, the handle is set to None and the exception
\* re-raised.
get_client(outcome) ==
    /\ kuma_service.client # 0 \/ kuma_service.attempts < MaxConnections
    /\ kuma_service' =
          IF kuma_service.client # 0
          THEN [kuma_service EXCEPT !.last = [op |-> "_get_client", raised |-> FALSE,
                                              value |-> kuma_service.client]]
          ELSE LET made == kuma_service.attempts + 1
               IN  IF outcome = "ok"
                   THEN [kuma_service EXCEPT
                            !.client = made, !.attempts = made, !.logged_in = @ \cup {made},
                            !.last = [op |-> "_get_client", raised |-> FALSE, value |-> made]]
                   ELSE [kuma_service EXCEPT
                            !.client = 0, !.attempts = made,
                            !.last = [op |-> "_get_client", raised |-> TRUE, value |-> 0]]
    /\ UNCHANGED <<pc, bundle, result, fleet, fleetResult, users, creds, now, issued, requests,
                   raw_monitor, normalized, current_time, instances, tasks, loop_holder, calls,
                   health, operations, sessions>>

\* UptimeKumaService.close: nothing without a handle; otherwise
\* client.disconnect(), whose exception is logged and swallowed (value -1),
\* and "finally: self.client = None"
close(disconnect_ok) ==
    /\ kuma_service' =
          IF kuma_service.client = 0
          THEN [kuma_service EXCEPT !.last = [op |-> "close", raised |-> FALSE, value |-> 0]]
          ELSE [kuma_service EXCEPT
                   !.client = 0,
                   !.disconnected = @ \cup {kuma_service.client},
                   !.last = [op |-> "close", raised |-> FALSE,
                             value |-> IF disconnect_ok THEN 0 ELSE -1]]
    /\ UNCHANGED <<pc, bundle, result, fleet, fleetResult, users, creds, now, issued, requests,
                   raw_monitor, normalized, current_time, instances, tasks, loop_holder, calls,
                   health, operations, sessions>>

-----------------------------------------------------------------------------
(* The state machines                                                      *)

\* the credentials service and the routes: the state after start-up
Init ==
    /\ pc = "idle"
    /\ bundle = EmptyBundle
    /\ result = NotRun
    /\ fleet = EmptyFleet
    /\ fleetResult = NotRun
    /\ users = {}
    /\ creds = {}
    /\ now = 0
    /\ issued = {}
    /\ requests = NoRequest
    /\ raw_monitor = NoMonitor
    /\ normalized = NoMonitor
    /\ current_time = 0
    /\ instances = <<>>
    /\ tasks = <<>>
    /\ loop_holder = 0
    /\ kuma_service = [client |-> 0, attempts |-> 0, logged_in |-> {}, disconnected |-> {}, last |-> [op |-> "", raised |-> FALSE, value |-> 0]]
    /\ sessions = [t \in 1..MaxWorkers |-> Idle]
    /\ operations = <<>>
    /\ health = [pc |-> "idle"]
    /\ calls = <<>>

Next ==
    \/ \E u \in Usernames : register_user(u, "pw")
    \/ \E u \in Usernames, p \in Passwords : login(u, p)
    \/ \E u \in Usernames, p \in Passwords, sv \in {"grafana"} : login_for_access_token(u, p, sv)
    \/ \E r \in {"uptime-kuma", "proxmox"}, tk \in issued \cup ForgedTokens \cup {NoHeader} :
          protected_request(r, tk)
    \/ \E tk \in ForgedTokens \cup {NoHeader} : health_check(tk)
    \/ \E tk \in issued \cup ForgedTokens \cup {NoHeader} : delete_service_credential(1, tk)
    \/ \E tk \in issued \cup ForgedTokens : call_verify_token(tk)
    \/ Tick

Spec == Init /\ [][Next]_vars

\* the worker threads idle on empty tables; requests arrive in any order and
\* their statements interleave, all within one tick of the clock
SpecSessions ==
    /\ Init
    /\ [][\/ \E t \in 1..MaxWorkers, u \in Usernames : create_user_select(t, u)
          \/ \E t \in 1..MaxWorkers : create_user_insert(t)
          \/ \E t \in 1..MaxWorkers : create_user_login_token(t)
          \/ \E t \in 1..MaxWorkers : create_access_token_select(t, "alice", "pw", "grafana")
          \/ \E t \in 1..MaxWorkers : create_access_token_commit(t, "grafana")]_vars

\* GET /uptime-kuma/monitors/{id}/statistics: one call of the per-monitor transform
MonitorInit ==
    LET HeartbeatsByStatus == {With(DefaultHeartbeat, "status", st) : st \in {Int_(0), Int_(1), Int_(2)}}
    IN
    LET Repeat(x, n) == [i \in 1..n |-> x]
    IN
    LET \* the bundles the per-monitor transform is called with
        IsMonitorBundle(data) ==
            \* heartbeats that differ in their time
            \/ LET by_time == {With(DefaultHeartbeat, "time", t) :
                                  t \in {Absent, None, Str(""), Dash, Str(T_Jan1_10), Str(T_Jan1_12),
                                         Str(T_Jan2_08), Str(T_Bad)}}
                                 \cup {With(DefaultHeartbeat, "status", Int_(0))}
                   important == {With(DefaultHeartbeat, "time", t) :
                                    t \in {None, Str(T_Jan1_12), Str(T_Jan2_08), Str(T_Bad)}}
               IN  \E hbs \in Lists(by_time, MaxHeartbeats), imps \in Lists(important, MaxImportant) :
                      data = HeartbeatBundle(hbs, imps, DefaultUptime)
            \* heartbeats that differ in their ping; one heartbeat with every uptime mapping
            \/ LET by_ping == {With(DefaultHeartbeat, "ping", p) :
                                  p \in {None, Int_(0), Int_(100), Int_(300), Int_(600), Int_(1200),
                                         Str("abc")}}
                   uptimes ==
                       {Missing(EmptyDict), Null(EmptyDict), Present(EmptyDict)}
                       \cup {UptimeOf24(r) : r \in {Int_(0), Num(1, 2), Num(94999, 100000), Num(95, 100),
                                                    Num(98996, 100000), Num(99, 100), Num(99896, 100000),
                                                    Num(999, 1000), Int_(1), None, Str(""), Dash, Str("n/a")}}
                       \cup {Present([k \in {"720"} |-> Num(1, 2)]),
                             Present([k \in Periods |-> IF k = "24" THEN Int_(1) ELSE Num(98996, 100000)]),
                             Present([k \in Periods |-> IF k = "24" THEN None ELSE Int_(1)])}
               IN  \/ \E hbs \in Lists(by_ping, MaxHeartbeats), imps \in Lists(by_ping, MaxImportant),
                         u \in {DefaultUptime,
                                Present([k \in Periods |-> IF k = "24" THEN None ELSE Int_(1)])} :
                         data = HeartbeatBundle(hbs, imps, u)
                   \/ \E hbs \in Lists(by_ping, 1), u \in uptimes :
                         data = HeartbeatBundle(hbs, <<>>, u)
            \* heartbeats that differ in one of the other fields
            \/ LET by_field ==
                       {With(DefaultHeartbeat, "msg", m) : m \in {Absent, None, Str(""), Str("timeout")}}
                       \cup {With(DefaultHeartbeat, "important", b) : b \in {Absent, True}}
                       \cup {With(With(DefaultHeartbeat, "important", True), "time", t) :
                                t \in {None, Str(T_Jan2_08)}}
                       \cup {With(With(DefaultHeartbeat, "monitor_id", a), "monitorID", b) :
                                a \in {Absent, None}, b \in {Absent, Int_(7)}}
                       \cup {With(DefaultHeartbeat, "status", None), EmptyDict}
                   important == {EmptyDict, With(DefaultHeartbeat, "msg", None),
                                 With(With(DefaultHeartbeat, "important", True), "time", None)}
               IN  \E hbs \in Lists(by_field, MaxHeartbeats), imps \in Lists(important, MaxImportant) :
                      data = HeartbeatBundle(hbs, imps, DefaultUptime)
            \* status sequences
            \/ \E hbs \in Lists(HeartbeatsByStatus, MaxStatuses) :
                  data = HeartbeatBundle(hbs, <<Dict(DefaultHeartbeat)>>, DefaultUptime)
            \* lists longer than the two caps: a run of one heartbeat, then a run of another
            \/ \E a \in HeartbeatsByStatus, b \in HeartbeatsByStatus, i \in 0..MaxRun, j \in 0..MaxRun :
                  \/ data = HeartbeatBundle(Repeat(a, i) \o Repeat(b, j), <<>>, DefaultUptime)
                  \/ data = HeartbeatBundle(<<>>, Repeat(a, i) \o Repeat(b, j), DefaultUptime)
            \* absent, null and empty sections
            \/ LET sections == {Missing(<<>>), Null(<<>>), Present(<<>>),
                                Present(<<Dict(DefaultHeartbeat)>>)}
                   monitor_sections ==
                       {Missing(NoMonitor), Null(NoMonitor), Present(NoMonitor), DefaultMonitor}
                       \cup {MonitorOf(n, True, False, Str("http")) : n \in {Absent, None, Str("")}}
                       \cup {MonitorOf(Str("beta"), a, m, None) : a \in {Absent, False}, m \in {Absent, True}}
                   certs ==
                       {Missing(NoCert), Null(NoCert), Present(NoCert)}
                       \cup {CertOf(d, Present(CertDetails(Str("example.org")))) :
                                d \in {None, Str(""), Int_(0), Int_(7), Int_(30), Int_(45)}}
                       \cup {CertOf(Int_(45), Missing(NoDetails)), CertOf(Int_(45), Null(NoDetails)),
                             CertOf(Int_(45), Present([CertDetails(None) EXCEPT !.subject = Null(EmptyDict)]))}
               IN  \/ \E m \in monitor_sections, hbs \in sections, imps \in sections,
                         u \in {Missing(EmptyDict), Null(EmptyDict), DefaultUptime},
                         a \in {Absent, None, Int_(42)} :
                         data = Bundle(m, hbs, imps, u, Missing(NoCert), a)
                   \/ \E m \in {Null(NoMonitor), DefaultMonitor}, c \in certs :
                         data = Bundle(m, Present(<<>>), Present(<<>>), DefaultUptime, c, Int_(42))
    IN
    /\ pc = "call"
    /\ IsMonitorBundle(bundle)
    /\ result = NotRun
    /\ fleet = EmptyFleet
    /\ fleetResult = NotRun
    /\ users = {}
    /\ creds = {}
    /\ now = 0
    /\ issued = {}
    /\ requests = NoRequest
    /\ raw_monitor = NoMonitor
    /\ normalized = NoMonitor
    /\ current_time = 0
    /\ instances = <<>>
    /\ tasks = <<>>
    /\ loop_holder = 0
    /\ kuma_service = [client |-> 0, attempts |-> 0, logged_in |-> {}, disconnected |-> {}, last |-> [op |-> "", raised |-> FALSE, value |-> 0]]
    /\ sessions = <<>>
    /\ operations = <<>>
    /\ health = [pc |-> "idle"]
    /\ calls = <<>>

transform_monitor ==
    /\ pc = "call"
    /\ result' = MonitorStatisticsResource_transform(bundle)
    /\ pc' = "done"
    /\ UNCHANGED <<bundle, fleet, fleetResult, users, creds, now, issued, requests,
                 raw_monitor, normalized, current_time, instances, tasks, loop_holder, calls,
                 health, operations, sessions, kuma_service>>

SpecMonitor == MonitorInit /\ [][transform_monitor]_vars

\* GET /uptime-kuma/monitors/statistics: one call of the fleet transform
FleetInit ==
    LET \* the inputs the fleet transform is called with
        IsFleetInput(data) ==
            \/ \E bs \in Lists(FleetBundles, MaxFleet) : data = Fleet(Present(IntKeys(bs)), DefaultInfo)
            \/ \E bs \in Lists(FleetBundles, 1) :
                  data = Fleet(Present([i \in DOMAIN bs |-> [id |-> Str("1"), data |-> bs[i]]]),
                               DefaultInfo)
            \/ \E bs \in Lists(LargeFleetBundles, MaxLargeFleet) :
                  data = Fleet(Present(IntKeys(bs)), DefaultInfo)
            \/ LET infos ==
                       {Missing(NoInfo), Null(NoInfo), Present(NoInfo)}
                       \cup {InfoOf(t, u, Present([size |-> Int_(1048576)])) :
                                t \in {Absent, None, Int_(0), Int_(8)}, u \in {None, Int_(3), Str("3")}}
                       \cup {InfoOf(Int_(8), Int_(3), sz) : sz \in {Missing(EmptyDict), Present([size |-> None])}}
               IN  \E m \in {Missing(<<>>), Null(<<>>), Present(<<>>),
                             Present(IntKeys(<<CHOOSE fb \in LargeFleetBundles : TRUE>>))},
                      info \in infos :
                      data = Fleet(m, info)
    IN
    /\ pc = "call"
    /\ bundle = EmptyBundle
    /\ result = NotRun
    /\ IsFleetInput(fleet)
    /\ fleetResult = NotRun
    /\ users = {}
    /\ creds = {}
    /\ now = 0
    /\ issued = {}
    /\ requests = NoRequest
    /\ raw_monitor = NoMonitor
    /\ normalized = NoMonitor
    /\ current_time = 0
    /\ instances = <<>>
    /\ tasks = <<>>
    /\ loop_holder = 0
    /\ kuma_service = [client |-> 0, attempts |-> 0, logged_in |-> {}, disconnected |-> {}, last |-> [op |-> "", raised |-> FALSE, value |-> 0]]
    /\ sessions = <<>>
    /\ operations = <<>>
    /\ health = [pc |-> "idle"]
    /\ calls = <<>>

transform_fleet ==
    /\ pc = "call"
    /\ fleetResult' = AllMonitorsStatisticsResource_transform(fleet)
    /\ pc' = "done"
    /\ UNCHANGED <<bundle, result, fleet, users, creds, now, issued, requests,
                 raw_monitor, normalized, current_time, instances, tasks, loop_holder, calls,
                 health, operations, sessions, kuma_service>>

SpecFleet == FleetInit /\ [][transform_fleet]_vars

\* one call of the normalizer, then a second call on what the first returned
NormalizeInit ==
    LET \* the monitor mappings the normalizer is called with, as the vendor sends
        \* them (camelCase keys) or as an earlier layer already spelled them
        IsRawMonitor(raw) ==
            \E name \in {Absent, None, Str(""), Str("Alpha")},
               active \in {Absent, None, True, False, Int_(1)},
               force \in {Absent, True, False},
               maintenance \in {Absent, True},
               tags \in {Absent, None, Str("prod")},
               key \in {"forceInactive", "force_inactive"} :
                raw = [f |-> Dict([k \in {"name", "active", key, "maintenance", "tags", "maxredirects"} |->
                                      CASE k = "name" -> name
                                        [] k = "active" -> active
                                        [] k = key -> force
                                        [] k = "maintenance" -> maintenance
                                        [] k = "tags" -> tags
                                        [] OTHER -> Int_(10)]),
                       lists |-> [k \in {"notificationIDList", "accepted_statuscodes"} |->
                                     IF k = "notificationIDList" THEN <<Int_(1)>>
                                     ELSE <<Str("200-299"), None, Str("")>>]]
    IN
    /\ pc = "call"
    /\ bundle = EmptyBundle
    /\ result = NotRun
    /\ fleet = EmptyFleet
    /\ fleetResult = NotRun
    /\ users = {}
    /\ creds = {}
    /\ now = 0
    /\ issued = {}
    /\ requests = NoRequest
    /\ IsRawMonitor(raw_monitor)
    /\ normalized = NoMonitor
    /\ current_time = 0
    /\ instances = <<>>
    /\ tasks = <<>>
    /\ loop_holder = 0
    /\ kuma_service = [client |-> 0, attempts |-> 0, logged_in |-> {}, disconnected |-> {}, last |-> [op |-> "", raised |-> FALSE, value |-> 0]]
    /\ sessions = <<>>
    /\ operations = <<>>
    /\ health = [pc |-> "idle"]
    /\ calls = <<>>

normalize ==
    /\ pc = "call"
    /\ normalized' = MonitorResource_transform(raw_monitor)
    /\ pc' = "done"
    /\ UNCHANGED <<bundle, result, fleet, fleetResult, users, creds, now, issued, requests,
                   raw_monitor, current_time, instances, tasks, loop_holder, calls, health,
                   operations, sessions, kuma_service>>

renormalize ==
    /\ pc = "done"
    /\ raw_monitor' = normalized
    /\ normalized' = MonitorResource_transform(normalized)
    /\ pc' = "again"
    /\ UNCHANGED <<bundle, result, fleet, fleetResult, users, creds, now, issued, requests,
                   current_time, instances, tasks, loop_holder, calls, health, operations,
                   sessions, kuma_service>>

SpecNormalize == NormalizeInit /\ [][normalize \/ renormalize]_vars

\* requests to the cached routes of the wrappers, one after the other
SpecCache ==
    /\ Init
    /\ [][\/ \E cache_key \in {"nodes", "cluster_overview"}, fetch_ok \in BOOLEAN :
                proxmox_cached_get(cache_key, fetch_ok)
          \/ proxmox_start_vm
          \/ \E failing \in {0, 1, 3, 8} : get_all_monitors_statistics(failing)
          \/ Advance]_vars

\* one service object: calls of its methods and of close(), with every
\* outcome of connecting, logging in and disconnecting
SpecClient ==
    /\ Init
    /\ [][\/ \E outcome \in {"ok", "UptimeKumaApi raises", "login raises"} : get_client(outcome)
          \/ \E disconnect_ok \in BOOLEAN : close(disconnect_ok)]_vars

\* requests in flight on the event loop.  The loop and the worker threads
\* keep running what they can run, and every upstream but SlowService
\* answers in the end.
SpecLoop ==
    /\ Init
    /\ [][\/ \E route \in Routes : accept_request(route)
          \/ \E r \in 1..MaxRequests : run_endpoint(r)
          \/ \E r \in 1..MaxRequests : upstream_returns(r)
          \/ \E r \in 1..MaxRequests : send_response(r)]_vars
    /\ \A r \in 1..MaxRequests :
          /\ WF_vars(run_endpoint(r))
          /\ WF_vars(send_response(r))
          /\ WF_vars(upstream_returns(r) /\ tasks[r].route.service # SlowService)

\* concurrent calls of the transformers, their steps interleaved
SpecCalls ==
    /\ CallsInit
    /\ [][\E t \in 1..MaxCalls :
            \/ combine_heartbeats(t)
            \/ sort_combined(t)
            \/ build_result(t)
            \/ collect_monitor(t)
            \/ summarize_fleet(t)]_vars

\* one system health check, for every choice of configured services and of
\* upstream answers
SpecHealth ==
    /\ Init
    /\ [][\/ \E configured \in SUBSET {Services[k] : k \in DOMAIN Services},
               outcome \in [DOMAIN Services ->
                               {[type |-> "", text |-> ""],
                                [type |-> "ConnectionError", text |-> "refused"],
                                [type |-> "Exception", text |-> ""]}] :
               begin_health_check(configured, outcome)
          \/ \E i \in DOMAIN Services : check_health(i)
          \/ health_response]_vars

\* mutating operations on monitors, dashboards and VMs, for every answer of
\* the vendor to the lookup
SpecMutations ==
    /\ Init
    /\ [][\E answer \in {"found", "nothing", "raises"} :
            \/ \E monitor_id \in {1, 2} : \/ update_monitor(monitor_id, answer)
                                          \/ delete_monitor(monitor_id, answer)
            \/ \E dashboard_uid \in {"abc"} : delete_dashboard(dashboard_uid, answer)
            \/ \E node \in {"pve"}, vmid \in {"101"} :
                  \/ start_vm(node, vmid, answer)
                  \/ stop_vm(node, vmid, answer)
                  \/ delete_vm(node, vmid, answer)]_vars

-----------------------------------------------------------------------------
(* Properties of the routes (under Spec)                                   *)

\* C1: a request to a route behind the bearer dependency whose token is not a
\* token issued by the credentials service, still stored and not expired, is
\* rejected: no upstream service call is made and no data response returned.
C1_BearerTokenRequired ==
    [][(/\ requests' # requests
        /\ requests'.route \in ProtectedRoutes
        /\ ~verify_token(creds, requests'.token, now)
        /\ ~verify_user_token(users, requests'.token, now))
       => (~requests'.upstream /\ requests'.status # 200)]_vars

C27_EarlierLoginTokensRejected ==
    [][\A u \in Usernames, p \in Passwords :
          ((login(u, p) \/ register_user(u, p)) /\ requests'.status \in {200, 201})
             => \A tk \in issued : tk.sub = u => ~verify_user_token(users', tk, now')]_vars

\* C27, amended: after login_token stores a new token for a user,
\* verify_user_token accepts no token of that user other than the stored one;
\* a token issued earlier is rejected when it differs from the new one, even
\* before its own expiry, and at most one token per user verifies at a time.
C27_OnlyTheStoredTokenVerifies ==
    /\ [][\A u \in Usernames, p \in Passwords :
            ((login(u, p) \/ register_user(u, p)) /\ requests'.status \in {200, 201})
               => \A tk \in issued :
                     (tk.sub = u /\ tk # Jwt(u, now + TokenExpireMinutes))
                        => ~verify_user_token(users', tk, now')]_vars
    /\ [](\A tk \in issued \cup ForgedTokens, other \in issued \cup ForgedTokens :
            (/\ tk.sub = other.sub
             /\ verify_user_token(users, tk, now)
             /\ verify_user_token(users, other, now)) => tk = other)

\* a user logged in again later: the token of the first login is still before
\* its expiry and no longer verifies, the token of the second login does
C27_Witness ==
    /\ requests.route = "login" /\ requests.status = 200
    /\ \E row \in users, tk \in issued :
          /\ tk.sub = row.username
          /\ tk # row.token
          /\ tk.exp > now
          /\ ~verify_user_token(users, tk, now)
          /\ verify_user_token(users, row.token, now)

-----------------------------------------------------------------------------
(* Properties of requests served at the same time (under SpecSessions)     *)

\* C25: per-service token issuance rotates rather than accumulates: after any
\* interleaving of create_access_token calls there is at most one
\* service-credential row per (user, service_name), and it is active.
C25_OneRowPerUserService ==
    \A row \in creds, other \in creds :
        (row.user_id = other.user_id /\ row.service_name = other.service_name)
            => (row = other /\ row.is_active)

\* C28: no two stored users share a username, and a registration answered
\* 400 adds no user row, issues no token and leaves every stored row as it
\* was; a registration that finds the username stored, at its SELECT or at
\* its INSERT, is answered 400.
C28_UsernamesUnique ==
    /\ [](\A row \in users, other \in users : row.username = other.username => row = other)
    /\ [][\A t \in 1..MaxWorkers :
            /\ (sessions'[t] # sessions[t] /\ sessions'[t].op = "register"
                    /\ sessions'[t].status = 400)
                => (users' = users /\ issued' = issued /\ creds' = creds)
            /\ (sessions'[t] # sessions[t] /\ sessions'[t].op = "register"
                    /\ sessions[t].pc # "login_token"
                    /\ sessions'[t].pc \in {"done", "login_token"}
                    /\ \E row \in users : row.username = sessions'[t].username)
                => sessions'[t].status = 400]_vars

\* two registrations of one username passed the SELECT together; one was
\* stored and logged in, the other was refused at its INSERT
C28_Witness ==
    \E t \in 1..MaxWorkers, o \in 1..MaxWorkers :
        /\ t # o
        /\ sessions[t].op = "register" /\ sessions[t].status = 201
        /\ sessions[o].op = "register" /\ sessions[o].status = 400
        /\ sessions[o].username = sessions[t].username
        /\ sessions[o].user_id = 0
        /\ \E row \in users : row.username = sessions[t].username /\ row.token \in issued

-----------------------------------------------------------------------------
(* Properties of MonitorStatisticsResource.transform (under SpecMonitor)   *)

\* C2: no leaf of a returned per-monitor record is None or the empty string:
\* every missing or empty input value shows as the sentinel "-", the log
\* entries' name, time and message included.
C2_NoNullLeaf ==
    (pc = "done" /\ Returned(result) /\ ~BundleIsEmpty(bundle)) =>
        LET o == result.out
            ok(v) == v # None /\ v # Str("")
            all_ok(dict) == \A k \in DOMAIN dict : ok(dict[k])
        IN  /\ \A k \in {"id", "name", "url", "type", "description", "method", "status",
                         "active", "maintenance", "interval", "timeout", "avg_ping",
                         "avg_ping_calculated", "weight", "maxredirects", "dns_resolve_type",
                         "dns_resolve_server", "last_status_change", "ping_stability",
                         "ping_quality", "health_score"} : ok(o[k])
            /\ all_ok(o.uptime)
            /\ all_ok(o.cert_info)
            /\ all_ok(o.tags) /\ all_ok(o.notification_ids) /\ all_ok(o.accepted_statuscodes)
            /\ \A i \in DOMAIN o.recent_heartbeats : all_ok(o.recent_heartbeats[i])
            /\ \A i \in DOMAIN o.important_heartbeats : all_ok(o.important_heartbeats[i])
            /\ \A i \in DOMAIN o.logs : all_ok(o.logs[i])

\* C3: the transform never raises for a bundle whose heartbeats,
\* important_heartbeats, uptime, cert_info or avg_ping are absent or null, or
\* whose heartbeats have a null or malformed time, ping or status.
C3_NeverRaises ==
    (/\ pc = "done"
     /\ bundle.monitor.p # "none"
     /\ ~CertRaises(bundle.cert_info)
     /\ ~UptimeRaises(bundle.uptime))
    => Returned(result)

\* C4: health_score is "-" whenever the 24-hour percentage is "-" or absent or
\* avg_ping_calculated is "-", and a number whenever both are numbers: a
\* missing input is never scored as zero.
C4_HealthScoreSentinel ==
    (pc = "done" /\ Returned(result) /\ ~BundleIsEmpty(bundle)) =>
        LET o == result.out
            percent_missing == "24h_percent" \notin DOMAIN o.uptime
                               \/ o.uptime["24h_percent"] = Dash
            ping_missing == o.avg_ping_calculated = Dash
        IN  /\ (percent_missing \/ ping_missing) => o.health_score = Dash
            /\ (~percent_missing /\ ~ping_missing) => o.health_score.t = "num"

\* the 24-hour ratio is missing from the input while pings were measured, and
\* the score is the sentinel
C4_Witness ==
    /\ pc = "done" /\ Returned(result)
    /\ bundle.uptime = Present([k \in Periods |-> IF k = "24" THEN None ELSE Int_(1)])
    /\ Len(bundle.heartbeats.v) = 2
    /\ result.out.avg_ping_calculated = Int_(100)
    /\ result.out.health_score = Dash

\* C5: with both inputs numbers, health_score is
\* round(0.7 * 24h_percent + 0.3 * max(0, 100 - avg_ping_calculated / 10), 1):
\* 100.0 and 50 give 98.5, and an average ping of 1000 or more adds nothing.
C5_HealthScoreFormula ==
    (/\ pc = "done" /\ Returned(result) /\ ~BundleIsEmpty(bundle)
     /\ "24h_percent" \in DOMAIN result.out.uptime
     /\ result.out.uptime["24h_percent"].t = "num"
     /\ result.out.avg_ping_calculated.t = "num") =>
        LET percent == result.out.uptime["24h_percent"]
            ping == result.out.avg_ping_calculated
            ping_term == Sub(Int_(100), DivInt(ping, 10))
            clamped == IF Less(ping_term, Int_(0)) THEN Int_(0) ELSE ping_term
        IN  /\ result.out.health_score
                 = Round(Add(Mul(Num(7, 10), percent), Mul(Num(3, 10), clamped)), 1)
            /\ (percent = Int_(100) /\ ping = Int_(50)) => result.out.health_score = Num(985, 10)
            /\ Leq(Int_(1000), ping) => result.out.health_score = Round(Mul(Num(7, 10), percent), 1)
            /\ Leq(Round(Mul(Num(7, 10), percent), 1), result.out.health_score)

\* an average ping above 1000 ms next to a 99% uptime: the score is 69.3
C5_Witness ==
    /\ pc = "done" /\ Returned(result) /\ ~BundleIsEmpty(bundle)
    /\ Get(result.out.uptime, "24h_percent", Dash) = Int_(99)
    /\ result.out.avg_ping_calculated = Int_(1200)
    /\ result.out.health_score = Num(693, 10)

\* C6: when every heartbeat of the two lists has a valid ISO timestamp, logs
\* has exactly one entry per heartbeat of the two lists concatenated and is
\* ordered newest first by parsed time.
C6_LogsNewestFirst ==
    LET all == bundle.heartbeats.v \o bundle.important_heartbeats.v
        valid(hb) == Get(hb, "time", None).t = "str" /\ fromisoformat(Get(hb, "time", None).s) >= 0
    IN  (pc = "done" /\ Returned(result) /\ ~BundleIsEmpty(bundle)
         /\ \A i \in DOMAIN all : valid(all[i])) =>
            LET logs == result.out.logs
                entry(hb) == <<Get(hb, "time", Dash), Get(hb, "msg", Dash),
                               Get(hb, "status", None) = Int_(1)>>
                shown(log) == <<log.time, log.message, log.status = Str("UP")>>
            IN  /\ Len(logs) = Len(all)
                /\ \A i \in DOMAIN all :
                      Cardinality({j \in DOMAIN logs : shown(logs[j]) = entry(all[i])})
                         = Cardinality({j \in DOMAIN all : entry(all[j]) = entry(all[i])})
                /\ \A i \in 1..(Len(logs) - 1) :
                      fromisoformat(logs[i].time.s) >= fromisoformat(logs[i + 1].time.s)

\* three heartbeats given oldest first, two of them in the opposite order as
\* strings ("...-01 12:00" sorts before "...-01T10:00"), come out newest first
C6_Witness ==
    /\ pc = "done" /\ Returned(result)
    /\ Len(bundle.heartbeats.v) = 2 /\ Len(bundle.important_heartbeats.v) = 1
    /\ Get(bundle.heartbeats.v[1], "time", None) = Str(T_Jan1_10)
    /\ Get(bundle.heartbeats.v[2], "time", None) = Str(T_Jan1_12)
    /\ Get(bundle.important_heartbeats.v[1], "time", None) = Str(T_Jan2_08)
    /\ Len(result.out.logs) = 3
    /\ result.out.logs[1].time = Str(T_Jan2_08)
    /\ result.out.logs[2].time = Str(T_Jan1_12)
    /\ result.out.logs[3].time = Str(T_Jan1_10)

\* C7: if the time of at least one merged heartbeat fails ISO parsing, the
\* transform still returns and the whole logs list is in descending lexical
\* order of the raw time strings.
C7_LexicalFallback ==
    LET all == bundle.heartbeats.v \o bundle.important_heartbeats.v
    IN  (pc = "done" /\ bundle.heartbeats.p # "none" /\ bundle.important_heartbeats.p # "none"
         /\ ParseFails(all)) =>
            /\ Returned(result)
            /\ Len(result.out.logs) = Len(all)
            /\ \A i \in 1..(Len(result.out.logs) - 1) :
                  /\ result.out.logs[i].time.t = "str"
                  /\ result.out.logs[i + 1].time.t = "str"
                  /\ LexRank(result.out.logs[i].time.s) >= LexRank(result.out.logs[i + 1].time.s)

\* C8: status_changes_count is the number of positions of the whole input
\* heartbeats list, in its given order, whose status differs from the one
\* before: [1,1,0,0,1] gives 2, a list of length 0 or 1 gives 0.
C8_StatusChanges ==
    (pc = "done" /\ Returned(result) /\ ~BundleIsEmpty(bundle)) =>
        LET hbs == bundle.heartbeats.v
            status(i) == Get(hbs[i], "status", None)
        IN  /\ result.out.status_changes_count
                 = Cardinality({i \in 2..Len(hbs) : status(i) # status(i - 1)})
            /\ Len(hbs) <= 1 => result.out.status_changes_count = 0
            /\ (Len(hbs) = 5 /\ [i \in 1..5 |-> status(i)]
                                   = <<Int_(1), Int_(1), Int_(0), Int_(0), Int_(1)>>)
                  => result.out.status_changes_count = 2

\* more than ten heartbeats whose only status change lies after the tenth
C8_Witness ==
    /\ pc = "done" /\ Returned(result)
    /\ Len(bundle.heartbeats.v) > RecentCap
    /\ \A i \in 1..RecentCap : Get(bundle.heartbeats.v[i], "status", None) = Int_(1)
    /\ Get(bundle.heartbeats.v[Len(bundle.heartbeats.v)], "status", None) = Int_(0)
    /\ result.out.status_changes_count = 1

\* C9: when no heartbeat of the two lists carries a ping, avg_ping_calculated,
\* ping_quality, ping_stability and health_score are all the sentinel.
C9_NoValidPing ==
    LET all == bundle.heartbeats.v \o bundle.important_heartbeats.v
    IN  (pc = "done" /\ Returned(result) /\ ~BundleIsEmpty(bundle)
         /\ \A i \in DOMAIN all : ~IsNumber(Get(all[i], "ping", None))) =>
            /\ result.out.avg_ping_calculated = Dash
            /\ result.out.ping_quality = Dash
            /\ result.out.ping_stability = Dash
            /\ result.out.health_score = Dash

\* three heartbeats, none with a ping, on a monitor with a 24-hour ratio
C9_Witness ==
    /\ pc = "done" /\ Returned(result)
    /\ Len(bundle.heartbeats.v) = 2 /\ Len(bundle.important_heartbeats.v) = 1
    /\ \A i \in 1..2 : Get(bundle.heartbeats.v[i], "ping", Absent) = None
    /\ Get(bundle.important_heartbeats.v[1], "ping", Absent) = None
    /\ Get(result.out.uptime, "24h_percent", Dash) = Int_(100)
    /\ result.out.avg_ping_calculated = Dash
    /\ result.out.health_score = Dash

\* C13: for every window label w of the uptime mapping the output has exactly
\* the keys "<w>h", "<w>h_percent" and "<w>h_quality": the ratio, or the
\* sentinel for a missing one; round(ratio * 100, 2), or the sentinel; and the
\* tier excellent from 99.9, good from 99.0, fair from 95.0, poor below, or the
\* sentinel.  {"24": 0.999} gives 0.999, 99.9 and "excellent".
C13_UptimeWindows ==
    (pc = "done" /\ Returned(result) /\ ~BundleIsEmpty(bundle) /\ bundle.uptime.p = "val") =>
        LET ratios == bundle.uptime.v
            out == result.out.uptime
            label(w, suffix) ==
                CASE w = "24" /\ suffix = "h" -> "24h"
                  [] w = "24" /\ suffix = "h_percent" -> "24h_percent"
                  [] w = "24" /\ suffix = "h_quality" -> "24h_quality"
                  [] w = "720" /\ suffix = "h" -> "720h"
                  [] w = "720" /\ suffix = "h_percent" -> "720h_percent"
                  [] OTHER -> "720h_quality"
            missing(r) == r \in {None, Str(""), Dash}
            tier(percent) ==
                IF percent.n * 10 >= 999 * percent.d THEN Str("excellent")
                ELSE IF percent.n >= 99 * percent.d THEN Str("good")
                ELSE IF percent.n >= 95 * percent.d THEN Str("fair")
                ELSE Str("poor")
        IN  /\ DOMAIN out = {label(w, suffix) : w \in DOMAIN ratios,
                                                suffix \in {"h", "h_percent", "h_quality"}}
            /\ \A w \in DOMAIN ratios :
                  IF missing(ratios[w])
                  THEN /\ out[label(w, "h")] = Dash
                       /\ out[label(w, "h_percent")] = Dash
                       /\ out[label(w, "h_quality")] = Dash
                  ELSE /\ out[label(w, "h")] = ratios[w]
                       /\ out[label(w, "h_percent")] = Round(Mul(ratios[w], Int_(100)), 2)
                       /\ out[label(w, "h_quality")] = tier(out[label(w, "h_percent")])
            /\ ratios = [w \in {"24"} |-> Num(999, 1000)] =>
                  out = [h24 \in {"24h", "24h_percent", "24h_quality"} |->
                            CASE h24 = "24h" -> Num(999, 1000)
                              [] h24 = "24h_percent" -> Num(999, 10)
                              [] OTHER -> Str("excellent")]

\* the ratio 0.999 of the 24-hour window: 99.9 percent, on the threshold of
\* the first tier
C13_Witness ==
    /\ pc = "done" /\ Returned(result) /\ ~BundleIsEmpty(bundle)
    /\ bundle.uptime = UptimeOf24(Num(999, 1000))
    /\ DOMAIN result.out.uptime = {"24h", "24h_percent", "24h_quality"}
    /\ result.out.uptime["24h_percent"] = Num(999, 10)
    /\ result.out.uptime["24h_quality"] = Str("excellent")

\* C14: a transformed heartbeat's monitor_id is the first non-missing of the
\* input keys monitor_id and monitorID: with monitor_id absent or null and
\* monitorID set it is the value of monitorID, and it is the sentinel only
\* when both are missing.
C14_MonitorIdFallback ==
    (pc = "done" /\ Returned(result) /\ ~BundleIsEmpty(bundle)) =>
        \A i \in DOMAIN result.out.recent_heartbeats :
            LET hb == bundle.heartbeats.v[i]
                out == result.out.recent_heartbeats[i]
                missing(v) == v \in {Absent, None}
                first == Get(hb, "monitor_id", Absent)
                second == Get(hb, "monitorID", Absent)
            IN  DOMAIN hb # {} =>
                    /\ ~missing(first) => out.monitor_id = first
                    /\ (missing(first) /\ ~missing(second)) => out.monitor_id = second
                    /\ (missing(first) /\ missing(second)) => out.monitor_id = Dash

\* C15: recent_heartbeats is the transform of the first min(10, n) input
\* heartbeats in their given order, important_heartbeats the transform of the
\* first min(25, m) input important heartbeats, and heartbeats_count = n and
\* important_heartbeats_count = m are the lengths of the whole input lists.
C15_CappedPreviews ==
    (pc = "done" /\ Returned(result) /\ ~BundleIsEmpty(bundle)) =>
        LET hbs == bundle.heartbeats.v
            imps == bundle.important_heartbeats.v
            o == result.out
        IN  /\ Len(o.recent_heartbeats) = (IF Len(hbs) < 10 THEN Len(hbs) ELSE 10)
            /\ \A i \in DOMAIN o.recent_heartbeats :
                  o.recent_heartbeats[i] = HeartbeatResource_transform(hbs[i])
            /\ Len(o.important_heartbeats) = (IF Len(imps) < 25 THEN Len(imps) ELSE 25)
            /\ \A i \in DOMAIN o.important_heartbeats :
                  o.important_heartbeats[i] = HeartbeatResource_transform(imps[i])
            /\ o.heartbeats_count = Len(hbs)
            /\ o.important_heartbeats_count = Len(imps)

\* more than ten heartbeats whose status changes after the tenth: the preview
\* holds the first ten and the count all of them
C15_Witness ==
    /\ pc = "done" /\ Returned(result)
    /\ Len(bundle.heartbeats.v) > 10
    /\ Get(bundle.heartbeats.v[1], "status", None) = Int_(1)
    /\ Get(bundle.heartbeats.v[11], "status", None) = Int_(0)
    /\ Len(result.out.recent_heartbeats) = 10
    /\ \A i \in 1..10 : result.out.recent_heartbeats[i].status = Int_(1)
    /\ result.out.heartbeats_count = Len(bundle.heartbeats.v)

\* C16: avg_ping_calculated is the mean of the non-missing pings over the
\* union of heartbeats and important_heartbeats, all entries of both: a
\* heartbeat that occurs in both lists counts once.
C16_MeanOverUnion ==
    (pc = "done" /\ Returned(result) /\ ~BundleIsEmpty(bundle)) =>
        LET hbs == bundle.heartbeats.v
            imps == bundle.important_heartbeats.v
            only_important == Filter(imps, {i \in DOMAIN imps :
                                              \A j \in DOMAIN hbs : imps[i] # hbs[j]})
            union == hbs \o only_important
            measured == Filter(union, {i \in DOMAIN union : Get(union[i], "ping", None) # None})
            total == Sum([i \in DOMAIN measured |-> measured[i].ping])
        IN  IF measured = <<>>
            THEN result.out.avg_ping_calculated = Dash
            ELSE result.out.avg_ping_calculated = DivInt(total, Len(measured))

-----------------------------------------------------------------------------
(* Properties of AllMonitorsStatisticsResource.transform (under SpecFleet) *)

\* C10: up_percentage is round(|up| / (|up| + |down|) * 100, 2) with the
\* monitors under maintenance in neither count (3 up, 1 down, 2 under
\* maintenance give 75.0), and the number 0 when there is no up or down monitor.
C10_UpPercentage ==
    (pc = "done" /\ Returned(fleetResult) /\ ~FleetIsEmpty(fleet)) =>
        LET items == fleet.monitors.v
            flag(i, key) == /\ ~BundleIsEmpty(items[i].data)
                            /\ Truthy(Get(items[i].data.monitor.v.f, key, None))
            maintenance == {i \in DOMAIN items : flag(i, "maintenance")}
            up == {i \in DOMAIN items : ~BundleIsEmpty(items[i].data) /\ flag(i, "active")}
                     \ maintenance
            down == {i \in DOMAIN items : ~BundleIsEmpty(items[i].data) /\ ~flag(i, "active")}
                       \ maintenance
            n == Cardinality(up)
            total == Cardinality(up) + Cardinality(down)
        IN  /\ total > 0 => fleetResult.out.up_percentage = Round(Num(100 * n, total), 2)
            /\ total = 0 => fleetResult.out.up_percentage = Int_(0)
            /\ (n = 3 /\ total = 4 /\ Cardinality(maintenance) = 2)
                  => fleetResult.out.up_percentage = Int_(75)

\* three monitors up, one down and two under maintenance: 75
C10_Witness ==
    /\ pc = "done" /\ Returned(fleetResult) /\ ~FleetIsEmpty(fleet)
    /\ fleetResult.out.up_monitors_count = 3
    /\ fleetResult.out.down_monitors_count = 1
    /\ fleetResult.out.maintenance_monitors_count = 2
    /\ fleetResult.out.up_percentage = Int_(75)

\* C11: the groups up_monitors, down_monitors and maintenance_monitors are
\* pairwise disjoint: a monitor whose maintenance flag is true is only in
\* maintenance_monitors whatever its status, a monitor not under maintenance
\* is only in up_monitors when its status is 1 and only in down_monitors when
\* its status is 0.
C11_GroupsDisjoint ==
    (pc = "done" /\ Returned(fleetResult) /\ ~FleetIsEmpty(fleet)) =>
        LET items == fleet.monitors.v
            o == fleetResult.out
            ids(group) == {group[i].id : i \in DOMAIN group}
            up == ids(o.up_monitors)
            down == ids(o.down_monitors)
            maintenance == ids(o.maintenance_monitors)
            raw(i, key) == Get(items[i].data.monitor.v.f, key, None)
        IN  /\ up \cap down = {} /\ up \cap maintenance = {} /\ down \cap maintenance = {}
            /\ Len(o.up_monitors) = Cardinality(up)
            /\ Len(o.down_monitors) = Cardinality(down)
            /\ Len(o.maintenance_monitors) = Cardinality(maintenance)
            /\ \A i \in DOMAIN items :
                  ~BundleIsEmpty(items[i].data) =>
                      LET id == Int_(i)
                          status == IF Truthy(raw(i, "active")) THEN 1 ELSE 0
                      IN  IF Truthy(raw(i, "maintenance"))
                          THEN id \in maintenance /\ id \notin up /\ id \notin down
                          ELSE IF status = 1
                          THEN id \in up /\ id \notin down /\ id \notin maintenance
                          ELSE id \in down /\ id \notin up /\ id \notin maintenance

\* one monitor up, one down and one under maintenance whose status is 0: the
\* last is in maintenance_monitors alone
C11_Witness ==
    /\ pc = "done" /\ Returned(fleetResult) /\ ~FleetIsEmpty(fleet)
    /\ fleetResult.out.up_monitors_count = 1
    /\ fleetResult.out.down_monitors_count = 1
    /\ fleetResult.out.maintenance_monitors_count = 1
    /\ fleetResult.out.maintenance_monitors[1].status = Int_(0)

\* C17: avg_health_score is the mean, rounded to 1 decimal, of the
\* health_score of the monitors that are not under maintenance and whose
\* health_score is not the sentinel, and the sentinel when there is none;
\* avg_response_time is the same over avg_ping_calculated, rounded to 2
\* decimals.  A monitor under maintenance influences neither.
C17_FleetAverages ==
    (pc = "done" /\ Returned(fleetResult) /\ ~FleetIsEmpty(fleet)) =>
        LET ms == fleetResult.out.monitors
            counted(key) == Filter(ms, {i \in DOMAIN ms :
                                          /\ ~Truthy(Get(ms[i], "maintenance", None))
                                          /\ Get(ms[i], key, None) # Dash})
            mean(key, digits) ==
                LET values == [i \in DOMAIN counted(key) |-> counted(key)[i][key]]
                IN  IF values = <<>> THEN Dash
                    ELSE Round(DivInt(Sum(values), Len(values)), digits)
        IN  /\ fleetResult.out.avg_health_score = mean("health_score", 1)
            /\ fleetResult.out.avg_response_time = mean("avg_ping_calculated", 2)

\* a monitor that is up next to one under maintenance with a slower ping and a
\* lower score: the averages are those of the first alone
C17_Witness ==
    /\ pc = "done" /\ Returned(fleetResult) /\ ~FleetIsEmpty(fleet)
    /\ fleetResult.out.monitors_count = 2
    /\ fleetResult.out.up_monitors_count = 1
    /\ fleetResult.out.maintenance_monitors_count = 1
    /\ fleetResult.out.monitors[2].avg_ping_calculated = Int_(450)
    /\ fleetResult.out.avg_health_score = Num(985, 10)
    /\ fleetResult.out.avg_response_time = Int_(50)

\* C26: in every fleet output every monitor belongs to exactly one of the
\* three groups: up_monitors_count + down_monitors_count +
\* maintenance_monitors_count = monitors_count = the number of input monitor
\* ids, each monitor's status being 0 or 1.
C26_GroupsCoverEveryMonitor ==
    (pc = "done" /\ Returned(fleetResult) /\ ~FleetIsEmpty(fleet)) =>
        LET o == fleetResult.out
        IN  /\ o.monitors_count = Len(fleet.monitors.v)
            /\ o.up_monitors_count + o.down_monitors_count + o.maintenance_monitors_count
                  = o.monitors_count
            /\ \A i \in DOMAIN o.monitors :
                  Get(o.monitors[i], "status", None) \in {Int_(0), Int_(1)}

\* four monitors: two up, one down, and one under maintenance whose status is 1
C26_Witness ==
    /\ pc = "done" /\ Returned(fleetResult) /\ ~FleetIsEmpty(fleet)
    /\ Len(fleet.monitors.v) = 4
    /\ fleetResult.out.monitors_count = 4
    /\ fleetResult.out.up_monitors_count = 2
    /\ fleetResult.out.down_monitors_count = 1
    /\ fleetResult.out.maintenance_monitors_count = 1
    /\ fleetResult.out.maintenance_monitors[1].status = Int_(1)

-----------------------------------------------------------------------------
(* Properties of MonitorResource.transform (under SpecNormalize)           *)

\* C12: the normalizer is idempotent: applied to its own output it returns
\* that output unchanged, the fields active, force_inactive, maintenance and
\* status included.
C12_Idempotent ==
    pc = "again" => normalized = raw_monitor

-----------------------------------------------------------------------------
(* Properties of the wrappers' cache (under SpecCache)                     *)

\* C18: a value stored in the wrapper cache under a key is served without an
\* upstream call to every later read of that key made within 300 seconds,
\* reads of later requests included; nothing but its age drops an entry, a
\* create, update, start, stop or delete operation least of all.
C18_CacheServesLaterRequests ==
    [][LET stored(key) == \E i \in DOMAIN instances :
                             /\ key \in DOMAIN instances[i].cache
                             /\ current_time - instances[i].cache_timestamp[key] <= 300
           keys_read == CASE requests'.route = "nodes" -> {"nodes"}
                          [] requests'.route = "cluster_overview" -> {"cluster_overview"}
                          [] requests'.route = "statistics" -> {"monitors", "heartbeats"}
                          [] OTHER -> {}
       IN  /\ (Len(instances') > Len(instances) /\ keys_read # {}
                /\ \A key \in keys_read : stored(key))
                  => ~requests'.upstream
           /\ \A i \in DOMAIN instances :
                  i \in DOMAIN instances' /\ instances'[i] = instances[i]]_vars

-----------------------------------------------------------------------------
(* Properties of the event loop (under SpecLoop)                           *)

\* C19: while one request is blocked in a slow upstream call, the requests
\* to unrelated routes still make progress and complete: every accepted
\* request whose route does not call the slow upstream is answered in the end.
C19_UnrelatedRequestsComplete ==
    \A r \in 1..MaxRequests :
        (r \in DOMAIN tasks /\ tasks[r].route.service # SlowService)
            ~> (r \in DOMAIN tasks /\ tasks[r].st = "done")

-----------------------------------------------------------------------------
(* Properties of concurrent calls (under SpecCalls)                        *)

\* C20: the two transformers leave their input unchanged, the order and the
\* contents of heartbeats and important_heartbeats included, and whatever the
\* interleaving of concurrent calls on one input, each call returns what a
\* call run alone on that input returns.
C20_InputUnchangedResultAsAlone ==
    /\ [][bundle' = bundle /\ fleet' = fleet]_vars
    /\ [](\A t \in DOMAIN calls :
            calls[t].pc = "done" =>
                calls[t].out = IF calls[t].kind = "monitor"
                               THEN MonitorStatisticsResource_transform(bundle)
                               ELSE AllMonitorsStatisticsResource_transform(fleet))

\* a call has returned while another one holds its list, sorted in place
\* into an order that is not the order of the input lists
C20_Witness ==
    \E t \in DOMAIN calls, u \in DOMAIN calls :
        /\ calls[t].pc = "done"
        /\ Returned(calls[t].out)
        /\ calls[u].pc = "sorted"
        /\ calls[u].combined_heartbeats.items
              # bundle.heartbeats.v \o bundle.important_heartbeats.v

-----------------------------------------------------------------------------
(* Properties of the system health check (under SpecHealth)                *)

\* C21: the overall status is "degraded" if and only if the check of at
\* least one configured service raised, and "healthy" otherwise; a failing
\* service is "unhealthy" with the error text in its message; a failure does
\* not stop the checks: every configured service is checked exactly once.
C21_DegradedIffAConfiguredCheckRaised ==
    health.pc = "done" =>
        LET raised(i) == Services[i] \in health.configured /\ health.outcome[i].type # ""
        IN  /\ health.overall = IF \E i \in DOMAIN Services : raised(i)
                                THEN "degraded" ELSE "healthy"
            /\ \A i \in DOMAIN Services :
                  /\ raised(i) =>
                        /\ health.services_status[i].status = "unhealthy"
                        /\ health.services_status[i].message
                              = Str(health.outcome[i].type \o ": " \o health.outcome[i].text)
                  /\ health.checked[i] = IF Services[i] \in health.configured THEN 1 ELSE 0

\* the first configured service raised, a later one was still checked and is
\* healthy, one service is not configured, and the response is degraded
C21_Witness ==
    /\ health.pc = "done"
    /\ health.overall = "degraded"
    /\ health.services_status[1].status = "unhealthy"
    /\ health.services_status[3].status = "healthy"
    /\ health.services_status[4].status = "unknown"

-----------------------------------------------------------------------------
(* Properties of the Uptime Kuma client handle (under SpecClient)          *)

\* C30: the client handle is either unset or a client whose login succeeded:
\* when creating the client or logging in fails, _get_client raises and
\* leaves the handle unset, and the next call connects afresh; after a
\* successful login the same client is returned by every later call until
\* close(); after close() the handle is unset, even when disconnect raised.
C30_HandleUnsetOrLoggedIn ==
    /\ [](kuma_service.client = 0 \/ kuma_service.client \in kuma_service.logged_in)
    /\ [][/\ \A outcome \in {"ok", "UptimeKumaApi raises", "login raises"} :
               get_client(outcome) =>
                  IF kuma_service.client # 0
                  THEN /\ kuma_service'.client = kuma_service.client
                       /\ kuma_service'.attempts = kuma_service.attempts
                       /\ kuma_service'.last.value = kuma_service.client
                       /\ ~kuma_service'.last.raised
                  ELSE /\ kuma_service'.attempts = kuma_service.attempts + 1
                       /\ outcome # "ok" => (kuma_service'.last.raised /\ kuma_service'.client = 0)
                       /\ outcome = "ok" => (/\ kuma_service'.client = kuma_service'.attempts
                                             /\ kuma_service'.last.value = kuma_service'.client)
          /\ \A disconnect_ok \in BOOLEAN :
               close(disconnect_ok) => (kuma_service'.client = 0 /\ ~kuma_service'.last.raised)
          /\ kuma_service'.client # kuma_service.client
               => (kuma_service.client = 0 \/ kuma_service'.last.op = "close")]_vars

\* a login failed, the next call connected and logged in, and close() found
\* disconnect raising: the handle is unset all the same
C30_Witness ==
    /\ kuma_service.last = [op |-> "close", raised |-> FALSE, value |-> -1]
    /\ kuma_service.client = 0
    /\ kuma_service.attempts = 2
    /\ kuma_service.logged_in = {2}
    /\ kuma_service.disconnected = {2}

-----------------------------------------------------------------------------
(* Properties of the mutating operations (under SpecMutations)             *)

\* C22: delete_monitor, update_monitor and delete_dashboard issue their
\* mutating vendor call only after an existence lookup of the same id has
\* returned a non-empty result; when the lookup returns nothing, the
\* operation returns False (delete) or None (update) and issues no mutating
\* call.
C22_MutateOnlyAfterLookupFound ==
    \A k \in DOMAIN operations :
        LET o == operations[k]
            mutating == {i \in DOMAIN o.calls :
                            o.calls[i].call \in {"edit_monitor", "delete_monitor",
                                                 "delete_dashboard"}}
        IN  o.op \in {"update_monitor", "delete_monitor", "delete_dashboard"} =>
              /\ \A i \in mutating :
                    /\ i > 1
                    /\ o.calls[i - 1].call \in {"get_monitor", "get_dashboard"}
                    /\ o.calls[i - 1].id = o.calls[i].id
                    /\ o.lookup = "found"
              /\ o.lookup = "nothing" =>
                    /\ mutating = {}
                    /\ o.returned = IF o.op = "update_monitor" THEN "None" ELSE "False"

\* an update whose lookup returned nothing and a delete whose lookup found
\* the monitor have both been handled
C22_Witness ==
    /\ \E k \in DOMAIN operations :
          operations[k].op = "update_monitor" /\ operations[k].lookup = "nothing"
    /\ \E k \in DOMAIN operations :
          operations[k].op = "delete_monitor" /\ Len(operations[k].calls) = 2

====
